---- MODULE Spec2Model ----
(***************************************************************************)
(* Model of the vocabulary store of zungenrede-bot (src/src/translation.rs)*)
(* and of the chat handlers that drive it (src/src/commands_messages.rs,   *)
(* src/src/practice.rs).                                                   *)
(*                                                                         *)
(* Strings are sequences of one-character strings, so that to_lowercase    *)
(* and trim are computed character by character.  The storage file is a    *)
(* record [state, recs]: state says what the file system answers for the   *)
(* path, recs is the JSON array the file holds.  fs::write is taken to     *)
(* succeed (the medium is writable); read failures are modelled.           *)
(*                                                                         *)
(* The practice sessions (src/src/practice.rs) are the table sessions, one *)
(* entry per chat, behind one lock (holder).  out is what the latest       *)
(* session handler did: the grade it was given, the key it passed to the   *)
(* store, the messages it sent and what it returned.  task holds the       *)
(* session handlers of the concurrent specification.  sentences is what    *)
(* practice_sentences.json parses to; the file is a deployed resource and  *)
(* is taken to load.                                                       *)
(*                                                                         *)
(* The sampler, the answer matcher and the response parser are functions   *)
(* of their arguments; calc holds the arguments of the call under way and, *)
(* once the call has returned, its result.                                 *)
(*                                                                         *)
(* locks is the state of the five shared locks and of the handlers that    *)
(* take them, for the specification of the locking order.                  *)
(***************************************************************************)
EXTENDS Integers, Sequences, FiniteSets, TLC

VARIABLES file, last, proc, sentences, sessions, out, task, holder, calc, locks

vars == <<file, last, proc, sentences, sessions, out, task, holder, calc, locks>>

(***************************************************************************)
(* Bounds of the model.                                                    *)
(***************************************************************************)
\* longest collection the handlers are allowed to build
MaxLen == 3
\* largest number of graded answers recorded in the whole collection
MaxCount == 2

(***************************************************************************)
(* Strings.                                                                *)
(***************************************************************************)
S_empty == <<>>
S_blank == <<" ">>
S_a == <<"a">>
S_A == <<"A">>
S_b == <<"b">>
S_B == <<"B">>
S_c == <<"c">>
S_z == <<"z">>

\* char::to_lowercase on the characters the model uses
LowerChar(c) ==
    CASE c = "A" -> "a"
      [] c = "B" -> "b"
      [] OTHER -> c

\* str::to_lowercase
to_lowercase(s) == [i \in DOMAIN s |-> LowerChar(s[i])]

\* char::is_whitespace
is_whitespace(c) == c = " "

RECURSIVE trim_start(_)
trim_start(s) ==
    IF s = <<>> THEN s
    ELSE IF is_whitespace(Head(s)) THEN trim_start(Tail(s))
    ELSE s

RECURSIVE trim_end(_)
trim_end(s) ==
    IF s = <<>> THEN s
    ELSE IF is_whitespace(s[Len(s)]) THEN trim_end(SubSeq(s, 1, Len(s) - 1))
    ELSE s

\* str::trim
trim(s) == trim_end(trim_start(s))

(***************************************************************************)
(* Records (struct Translation, struct Example).  grammar_forms and        *)
(* conjugations play no part in the store operations and are left out of   *)
(* the stored value.                                                       *)
(***************************************************************************)
Example(g, r) == [german |-> g, russian |-> r]

Translation(o, t, ex, c, w) ==
    [original |-> o, translation |-> t, examples |-> ex,
     correct_answers |-> c, wrong_answers |-> w]

\* Translation::is_valid
\* faulty variant: the examples are not looked at
is_valid_no_examples(t) ==
    /\ trim(t.original) # <<>>
    /\ trim(t.translation) # <<>>

is_valid(t) ==
    /\ trim(t.original) # <<>>
    /\ trim(t.translation) # <<>>
    /\ \A i \in DOMAIN t.examples :
         /\ trim(t.examples[i].german) # <<>>
         /\ trim(t.examples[i].russian) # <<>>

(***************************************************************************)
(* Results.                                                                *)
(***************************************************************************)
\* Result<T>: ok tells Ok from Err; flag, count and recs carry the value of an
\* Ok(bool), Ok(usize) and Ok(Vec<Translation>)
Result(ok, flag, count, recs) == [ok |-> ok, flag |-> flag, count |-> count, recs |-> recs]
OkUnit == Result(TRUE, FALSE, 0, <<>>)
OkBool(b) == Result(TRUE, b, 0, <<>>)
OkCount(n) == Result(TRUE, FALSE, n, <<>>)
OkRecs(recs) == Result(TRUE, FALSE, 0, recs)
Err == Result(FALSE, FALSE, 0, <<>>)

(***************************************************************************)
(* The storage file.                                                       *)
(*   absent     : the path does not exist                                  *)
(*   ok         : the file holds the JSON array recs                       *)
(*   malformed  : the file is read but serde_json rejects its content      *)
(*   unreadable : fs::read_to_string fails (the file holds recs, but the   *)
(*                process may only write it)                               *)
(***************************************************************************)
File(st, recs) == [state |-> st, recs |-> recs]

\* write_translations: the whole file is replaced by the serialized array
write_translations(recs, f) ==
    IF f.state = "unreadable" THEN File("unreadable", recs) ELSE File("ok", recs)

\* read_translations: [file |-> the file afterwards, ret |-> Ok(records) or Err]
read_translations(f) ==
    CASE f.state = "absent" -> [file |-> File("ok", <<>>), ret |-> OkRecs(<<>>)]
      [] f.state = "ok" -> [file |-> f, ret |-> OkRecs(f.recs)]
      [] f.state = "malformed" -> [file |-> f, ret |-> Err]
      [] OTHER -> [file |-> f, ret |-> OkRecs(<<>>)]

\* the closure of find_translation, update_translation_stats and delete_translation
matches_word(t, word) ==
    \/ to_lowercase(t.original) = to_lowercase(word)
    \/ to_lowercase(t.translation) = to_lowercase(word)

\* position of the first record matching word, 0 when there is none
find_position(word, translations) ==
    IF \E i \in DOMAIN translations : matches_word(translations[i], word)
    THEN CHOOSE i \in DOMAIN translations :
           /\ matches_word(translations[i], word)
           /\ \A j \in 1..(i - 1) : ~matches_word(translations[j], word)
    ELSE 0

None == [none |-> TRUE]

\* find_translation
find_translation(word, translations) ==
    LET i == find_position(word, translations)
    IN IF i = 0 THEN None ELSE translations[i]

\* the retain closure of add_translation
\* faulty variant: only the original is compared
add_retain_original_only(translation, translations) ==
    SelectSeq(translations,
              LAMBDA t : to_lowercase(t.original) # to_lowercase(translation.original))

add_retain(translation, translations) ==
    SelectSeq(translations,
              LAMBDA t : /\ to_lowercase(t.original) # to_lowercase(translation.original)
                         /\ to_lowercase(t.translation) #
                              to_lowercase(translation.translation))

\* add_translation: [file, ret]
\* faulty variant: the record is pushed without the retain
add_translation_no_retain(translation, f) ==
    IF ~is_valid(translation) THEN [file |-> f, ret |-> Err]
    ELSE LET rd == read_translations(f)
         IN IF ~rd.ret.ok THEN [file |-> rd.file, ret |-> Err]
            ELSE [file |-> write_translations(Append(rd.ret.recs, translation), rd.file),
                  ret |-> OkUnit]

\* the counters of the record of the same original, (0, 0) when there is none
carried_over(translation, translations) ==
    LET same == {i \in DOMAIN translations :
                   to_lowercase(translations[i].original) =
                     to_lowercase(translation.original)}
    IN IF same = {} THEN translation
       ELSE LET i == CHOOSE i \in same : TRUE
            IN [translation EXCEPT !.correct_answers = translations[i].correct_answers,
                                   !.wrong_answers = translations[i].wrong_answers]

\* faulty variant: the new record takes over the counters of the record it replaces
add_translation_merge(translation, f) ==
    IF ~is_valid(translation) THEN [file |-> f, ret |-> Err]
    ELSE LET rd == read_translations(f)
         IN IF ~rd.ret.ok THEN [file |-> rd.file, ret |-> Err]
            ELSE [file |-> write_translations(
                             Append(add_retain(translation, rd.ret.recs),
                                    carried_over(translation, rd.ret.recs)),
                             rd.file),
                  ret |-> OkUnit]

add_translation(translation, f) ==
    IF ~is_valid(translation) THEN [file |-> f, ret |-> Err]
    ELSE LET rd == read_translations(f)
         IN IF ~rd.ret.ok THEN [file |-> rd.file, ret |-> Err]
            ELSE [file |-> write_translations(
                             Append(add_retain(translation, rd.ret.recs), translation),
                             rd.file),
                  ret |-> OkUnit]

\* the counter update of update_translation_stats on the record at position i
stats_bump(translations, i, correct) ==
    [translations EXCEPT ![i] =
        IF correct
        THEN [@ EXCEPT !.correct_answers = @ + 1]
        ELSE [@ EXCEPT !.wrong_answers = @ + 1]]

\* update_translation_stats: [file, ret]
\* faulty variant: the two counters are swapped
update_translation_stats_swapped(word, correct, f) ==
    LET rd == read_translations(f)
    IN IF ~rd.ret.ok THEN [file |-> rd.file, ret |-> Err]
       ELSE LET i == find_position(word, rd.ret.recs)
            IN IF i = 0 THEN [file |-> rd.file, ret |-> OkUnit]
               ELSE [file |-> write_translations(stats_bump(rd.ret.recs, i, ~correct),
                                                 rd.file),
                     ret |-> OkUnit]

update_translation_stats(word, correct, f) ==
    LET rd == read_translations(f)
    IN IF ~rd.ret.ok THEN [file |-> rd.file, ret |-> Err]
       ELSE LET i == find_position(word, rd.ret.recs)
            IN IF i = 0 THEN [file |-> rd.file, ret |-> OkUnit]
               ELSE [file |-> write_translations(stats_bump(rd.ret.recs, i, correct),
                                                 rd.file),
                     ret |-> OkUnit]

\* the retain closure of delete_translation
delete_retain(word, translations) ==
    SelectSeq(translations, LAMBDA t : ~matches_word(t, word))

\* delete_translation: [file, ret]
\* faulty variant: only the original is compared
delete_translation_original_only(word, f) ==
    LET rd == read_translations(f)
    IN IF ~rd.ret.ok THEN [file |-> rd.file, ret |-> Err]
       ELSE LET kept == SelectSeq(rd.ret.recs,
                                  LAMBDA t : to_lowercase(t.original) # to_lowercase(word))
            IN [file |-> write_translations(kept, rd.file),
                ret |-> OkBool(Len(rd.ret.recs) # Len(kept))]

delete_translation(word, f) ==
    LET rd == read_translations(f)
    IN IF ~rd.ret.ok THEN [file |-> rd.file, ret |-> Err]
       ELSE LET kept == delete_retain(word, rd.ret.recs)
            IN [file |-> write_translations(kept, rd.file),
                ret |-> OkBool(Len(rd.ret.recs) # Len(kept))]

\* an import payload: parsed says whether serde_json accepts the text
Payload(parsed, recs) == [parsed |-> parsed, recs |-> recs]

\* import_translations: [file, ret]
\* faulty variant: the valid records of the payload are written, the others dropped
import_translations_skip_invalid(json_data, f) ==
    IF ~json_data.parsed THEN [file |-> f, ret |-> Err]
    ELSE LET valid == SelectSeq(json_data.recs, is_valid)
         IN [file |-> write_translations(valid, f), ret |-> OkCount(Len(valid))]

import_translations(json_data, f) ==
    IF ~json_data.parsed THEN [file |-> f, ret |-> Err]
    ELSE IF ~(\A i \in DOMAIN json_data.recs : is_valid(json_data.recs[i]))
    THEN [file |-> f, ret |-> Err]
    ELSE [file |-> write_translations(json_data.recs, f),
          ret |-> OkCount(Len(json_data.recs))]

\* clear_translations: the file is rewritten as "[]"
clear_translations(f) == [file |-> write_translations(<<>>, f), ret |-> OkUnit]

(***************************************************************************)
(* Inputs.                                                                 *)
(***************************************************************************)
GoodEx == Example(S_a, S_b)

\* a record as parse_translation_response builds it: both counters are 0
Parsed(o, t, ex) == Translation(o, t, ex, 0, 0)

R_ab == Parsed(S_a, S_b, <<>>)
R_bc == Parsed(S_b, S_c, <<>>)
R_ca == Parsed(S_c, S_a, <<>>)
R_Ac == Parsed(S_A, S_c, <<>>)
R_cB == Parsed(S_c, S_B, <<GoodEx>>)

ValidInputs == {R_ab, R_bc, R_ca, R_Ac, R_cB}

InvalidInputs ==
    { Parsed(S_blank, S_b, <<>>),
      Parsed(S_a, S_empty, <<>>),
      Parsed(S_a, S_b, <<Example(S_blank, S_b)>>),
      Parsed(S_a, S_b, <<GoodEx, Example(S_a, S_empty)>>) }

\* the records a tutor response can be parsed into
ParsedInputs == ValidInputs \cup InvalidInputs

\* the words of a message: a lookup text, a word to delete, an answer-side field
Words == {S_a, S_A, S_b, S_B, S_c}
LookupTexts == Words \cup {S_z}

\* the files a user can upload for import
ImportFiles ==
    { Payload(FALSE, <<>>),
      Payload(TRUE, <<>>),
      Payload(TRUE, <<Translation(S_a, S_b, <<>>, 1, 0)>>),
      Payload(TRUE, <<Translation(S_a, S_b, <<>>, 0, 1), Translation(S_A, S_c, <<>>, 0, 0)>>),
      Payload(TRUE, <<R_bc, Parsed(S_blank, S_b, <<>>)>>),
      Payload(TRUE, <<Parsed(S_a, S_b, <<Example(S_a, S_blank)>>), R_ca>>) }

RECURSIVE TotalAnswers(_)
TotalAnswers(recs) ==
    IF recs = <<>> THEN 0
    ELSE Head(recs).correct_answers + Head(recs).wrong_answers + TotalAnswers(Tail(recs))

(***************************************************************************)
(* State.  last is the store call the latest handler made: its name, its   *)
(* argument and what it returned.  proc holds the requests of the          *)
(* concurrent specification and is idle in the sequential one.             *)
(***************************************************************************)
Procs == {1, 2}

\* rep: this successful add_translation repeats the call made just before it
Last(op, rec, word, correct, json, ret) ==
    [op |-> op, rec |-> rec, word |-> word, correct |-> correct, json |-> json,
     ret |-> ret,
     rep |-> /\ op = "add"
             /\ last.op = "add"
             /\ last.rec = rec
             /\ last.ret.ok
             /\ ret.ok]

\* the unused arguments of a call
NoRec == Translation(<<>>, <<>>, <<>>, 0, 0)
NoWord == <<>>
NoJson == Payload(FALSE, <<>>)

Idle == [pc |-> "idle", op |-> "none", rec |-> NoRec, word |-> NoWord, correct |-> FALSE,
         local |-> <<>>]

(***************************************************************************)
(* Practice sessions: records.                                             *)
(***************************************************************************)
\* const STATS_INTERVAL
STATS_INTERVAL == 10

\* most answers a session is given
MaxAttempts == 11
\* most answers of a session that are not graded Correct
MaxWrong == 1
\* most answers the sessions record in the storage file
MaxBumps == 1

\* the chats that talk to the bot
Chats == {1}

\* impl Default for Translation
Translation_default == Translation(<<>>, <<>>, <<>>, 0, 0)

\* struct PracticeSentence
PracticeSentence(g, r, m) == [german_sentence |-> g, russian_translation |-> r, missing_word |-> m]

\* practice_sentences.json as it parses: the deployed list, or an empty list
PracticeSentences == <<PracticeSentence(S_a, S_b, S_a), PracticeSentence(S_c, S_b, S_c)>>
SentenceFiles == {<<>>, PracticeSentences}

\* enum PracticeType
WordTranslation == "WordTranslation"
SentenceCompletion == "SentenceCompletion"
PracticeTypes == {WordTranslation, SentenceCompletion}

\* enum AnswerResult
Correct == "Correct"
AlmostCorrect == "AlmostCorrect"
WrongArticle == "WrongArticle"
Wrong == "Wrong"
AnswerResults == {Correct, AlmostCorrect, WrongArticle, Wrong}

\* struct PracticeSession; current_sentence is the Option as a sequence of at
\* most one sentence; present tells an entry of the table from a missing one
PracticeSession(word, sentence, type, russian, practiced, correct, wrong) ==
    [present |-> TRUE, current_word |-> word, current_sentence |-> sentence,
     practice_type |-> type, expecting_russian |-> russian,
     words_practiced |-> practiced, correct_answers |-> correct, wrong_answers |-> wrong]

\* sessions.get(&chat) = None
NoSession ==
    [present |-> FALSE, current_word |-> Translation_default, current_sentence |-> <<>>,
     practice_type |-> WordTranslation, expecting_russian |-> FALSE,
     words_practiced |-> 0, correct_answers |-> 0, wrong_answers |-> 0]

\* what a session handler did: op and chat name the handler; result is the
\* grade of the answer; stats tells whether update_translation_stats was called
\* and key with which word; feedback is the first text handed to
\* bot.send_message, summary whether it carries format_practice_stats and
\* attempts the words_practiced printed there (0 without a summary), question
\* whether a question was handed over after it; delivered counts the texts the
\* transport took; io tells whether a store call failed; ok is Ok(()) against Err
Out(op, chat, result, stats, key, feedback, summary, attempts, question, delivered, io, ok) ==
    [op |-> op, chat |-> chat, result |-> result, stats |-> stats, key |-> key,
     feedback |-> feedback, summary |-> summary, question |-> question,
     attempts |-> attempts, delivered |-> delivered, io |-> io, ok |-> ok]

NoOut == Out("none", 0, "none", FALSE, NoWord, "none", FALSE, 0, FALSE, 0, FALSE, TRUE)

\* bot.send_message(..).await?: net is the number of texts the transport takes
\* before it fails
Deliveries == 0..2

\* a store call the handlers of this section do not report in last
NoCall ==
    [op |-> "start", rec |-> NoRec, word |-> NoWord, correct |-> FALSE,
     json |-> NoJson, ret |-> OkUnit, rep |-> FALSE]

\* the session handlers that can be in flight at once
Tasks == {1, 2}

\* a handler that has not been started; local is its clone of the session, ok
\* tells Ok(()) from Err once it has returned
IdleTask ==
    [pc |-> "idle", op |-> "none", chat |-> 0, result |-> "none", local |-> NoSession,
     ok |-> TRUE]

\* no call of a pure function (sampler, matcher, parser) is under way
NoCalc == [fn |-> "none"]

\* the shared locks main creates: the three session tables, the delete mode
\* set and the use_chatgpt flag
Locks == {"practice", "talk", "picture", "delete", "chatgpt"}

\* most handlers in flight at once
NumHandlers == 2
Handlers == 1..NumHandlers

\* no handler runs and every lock is free: prog is the lock statements of the
\* handler, pc the statement it is at (0: not running), holder the handler that
\* holds a lock (0: free), queue the handlers waiting for it, oldest first
NoLocks ==
    [prog |-> [h \in Handlers |-> <<>>], pc |-> [h \in Handlers |-> 0],
     holder |-> [l \in Locks |-> 0], queue |-> [l \in Locks |-> <<>>]]

\* main: the session table is empty and its lock is free
InitSessions ==
    /\ sessions = [c \in Chats |-> NoSession]
    /\ out = NoOut
    /\ task = [t \in Tasks |-> IdleTask]
    /\ holder = 0
    /\ calc = NoCalc
    /\ locks = NoLocks

\* a handler that is no session handler leaves the sessions alone
NoSessionStep ==
    /\ out' = NoOut
    /\ UNCHANGED <<sentences, calc, sessions, task, holder, locks>>

\* main: the storage path is whatever the disk holds when the bot starts
InitFiles ==
    { File("absent", <<>>),
      File("ok", <<>>),
      File("malformed", <<>>),
      File("unreadable", <<R_ab, R_bc>>) }

Init ==
    /\ file \in InitFiles
    /\ last = [op |-> "start", rec |-> NoRec, word |-> NoWord, correct |-> FALSE,
               json |-> NoJson, ret |-> OkUnit, rep |-> FALSE]
    /\ proc = [p \in Procs |-> Idle]
    /\ sentences = PracticeSentences
    /\ InitSessions

(***************************************************************************)
(* Handlers, one action each.                                              *)
(***************************************************************************)
\* handle_message, a single word outside practice and delete mode: answer from
\* the store when the word is found, otherwise store the parsed tutor response
HandleMessageLookup(text, translation) ==
    LET rd == read_translations(file)
    IN /\ IF ~rd.ret.ok
          THEN /\ file' = rd.file
               /\ last' = Last("lookup", NoRec, NoWord, FALSE, NoJson, Err)
          ELSE IF find_translation(text, rd.ret.recs) # None
          THEN /\ file' = rd.file
               /\ last' = Last("lookup", NoRec, NoWord, FALSE, NoJson, OkUnit)
          ELSE LET res == add_translation(translation, rd.file)
               IN /\ Len(res.file.recs) <= MaxLen
                  /\ file' = res.file
                  /\ last' = Last("add", translation, NoWord, FALSE, NoJson, res.ret)
       /\ UNCHANGED proc
       /\ NoSessionStep

\* handle_message in delete mode
HandleMessageDelete(text) ==
    LET res == delete_translation(text, file)
    IN /\ file' = res.file
       /\ last' = Last("delete", NoRec, text, FALSE, NoJson, res.ret)
       /\ UNCHANGED proc
       /\ NoSessionStep

\* handle_document
HandleDocument(json_data) ==
    LET res == import_translations(json_data, file)
    IN /\ TotalAnswers(json_data.recs) <= MaxCount
       /\ Len(json_data.recs) <= MaxLen
       /\ file' = res.file
       /\ last' = Last("import", NoRec, NoWord, FALSE, json_data, res.ret)
       /\ UNCHANGED proc
       /\ NoSessionStep

\* handle_command, Command::Clear
CommandClear ==
    LET res == clear_translations(file)
    IN /\ file' = res.file
       /\ last' = Last("clear", NoRec, NoWord, FALSE, NoJson, res.ret)
       /\ UNCHANGED proc
       /\ NoSessionStep

\* handle_command, Command::Export: reads the collection and changes nothing
CommandExport ==
    LET rd == read_translations(file)
    IN /\ file' = rd.file
       /\ last' = Last("read", NoRec, NoWord, FALSE, NoJson, rd.ret)
       /\ UNCHANGED proc
       /\ NoSessionStep

\* check_practice_answer, the statistics update of a graded answer
PracticeAnswerStats(word, correct) ==
    LET res == update_translation_stats(word, correct, file)
    IN /\ TotalAnswers(file.recs) < MaxCount
       /\ file' = res.file
       /\ last' = Last("stats", NoRec, word, correct, NoJson, res.ret)
       /\ UNCHANGED proc
       /\ NoSessionStep

Next ==
    \/ \E text \in LookupTexts, t \in ParsedInputs : HandleMessageLookup(text, t)
    \/ \E text \in Words : HandleMessageDelete(text)
    \/ \E json_data \in ImportFiles : HandleDocument(json_data)
    \/ CommandClear
    \/ CommandExport
    \/ \E word \in Words, correct \in BOOLEAN : PracticeAnswerStats(word, correct)

Spec == Init /\ [][Next]_vars

(***************************************************************************)
(* Two requests handled concurrently.  The dispatcher runs the handlers of *)
(* different chats as separate tasks of a multi-threaded runtime; a store  *)
(* call is a read of the whole file followed, after the change has been    *)
(* made on the copy, by a write of the whole file.                         *)
(***************************************************************************)
Request(op, rec, word, correct) ==
    [pc |-> "read", op |-> op, rec |-> rec, word |-> word, correct |-> correct,
     local |-> <<>>]

\* the store calls two chats can have in flight
Requests ==
    {Request("add", r, NoWord, FALSE) : r \in {R_ca, R_Ac}}
      \cup {Request("stats", NoRec, w, c) : w \in {S_a, S_c}, c \in BOOLEAN}
      \cup {Request("delete", NoRec, w, FALSE) : w \in {S_a, S_c}}

RaceFile == File("ok", <<R_ab, R_bc>>)

InitRace ==
    /\ file = RaceFile
    /\ last = [op |-> "start", rec |-> NoRec, word |-> NoWord, correct |-> FALSE,
               json |-> NoJson, ret |-> OkUnit, rep |-> FALSE]
    /\ proc = [p \in Procs |-> Idle]
    /\ sentences = PracticeSentences
    /\ InitSessions

\* the dispatcher starts the handler of an update
Dispatch(p, req) ==
    /\ proc[p].pc = "idle"
    /\ proc' = [proc EXCEPT ![p] = req]
    /\ UNCHANGED <<file, last>>
    /\ NoSessionStep

\* let mut translations = read_translations()?
StoreRead(p) ==
    /\ proc[p].pc = "read"
    /\ LET rd == read_translations(file)
           found == find_position(proc[p].word, rd.ret.recs) # 0
       IN /\ file' = rd.file
          /\ proc' = [proc EXCEPT ![p].local = rd.ret.recs,
                                  ![p].pc = IF /\ rd.ret.ok
                                               /\ (proc[p].op = "stats" => found)
                                            THEN "write" ELSE "done"]
    /\ UNCHANGED last
    /\ NoSessionStep

\* the change made on the copy that was read
changed(r) ==
    CASE r.op = "add" -> Append(add_retain(r.rec, r.local), r.rec)
      [] r.op = "stats" -> stats_bump(r.local, find_position(r.word, r.local), r.correct)
      [] OTHER -> delete_retain(r.word, r.local)

\* write_translations(&translations)?
StoreWrite(p) ==
    /\ proc[p].pc = "write"
    /\ file' = write_translations(changed(proc[p]), file)
    /\ proc' = [proc EXCEPT ![p].pc = "done"]
    /\ UNCHANGED last
    /\ NoSessionStep

NextRace ==
    \/ \E p \in Procs, req \in Requests : Dispatch(p, req)
    \/ \E p \in Procs : StoreRead(p)
    \/ \E p \in Procs : StoreWrite(p)

SpecRace == InitRace /\ [][NextRace]_vars

(***************************************************************************)
(* Practice sessions: operations.  The random draws of a handler are its   *)
(* inputs: type is the practice type, pick the position the sampler stops  *)
(* at, russian the direction.                                              *)
(***************************************************************************)
\* get_weighted_translation: every weight is at least 1, so the draw can stop
\* at any position; pick is that position
get_weighted_translation(translations, pick) ==
    IF translations = <<>> THEN None ELSE translations[pick]

\* get_random_sentence
get_random_sentence(sents, pick) ==
    IF sents = <<>> THEN None ELSE sents[pick]

\* the positions a draw from seq can stop at
Picks(seq) == IF seq = <<>> THEN {1} ELSE DOMAIN seq

\* start_practice_session: [file, sessions, out]
\* faulty variant: only the practice sentences are tested for emptiness
start_practice_session_sentences_only(chat, type, pick, russian, net, f, sents, tbl) ==
    LET rd == read_translations(f)
    IN IF ~rd.ret.ok
       THEN [file |-> rd.file, sessions |-> tbl,
             out |-> Out("start", chat, "none", FALSE, NoWord, "none", FALSE, 0, FALSE, 0,
                         TRUE, FALSE)]
       ELSE IF sents = <<>>
       THEN [file |-> rd.file, sessions |-> tbl,
             out |-> Out("start", chat, "none", FALSE, NoWord, "refused", FALSE, 0, FALSE,
                         IF net >= 1 THEN 1 ELSE 0, FALSE, net >= 1)]
       ELSE IF type = WordTranslation /\ rd.ret.recs = <<>>
       THEN [file |-> rd.file, sessions |-> tbl,
             out |-> Out("start", chat, "none", FALSE, NoWord, "none", FALSE, 0, FALSE, 0,
                         FALSE, FALSE)]
       ELSE LET session ==
                    IF type = WordTranslation
                    THEN PracticeSession(get_weighted_translation(rd.ret.recs, pick), <<>>,
                                         type, russian, 0, 0, 0)
                    ELSE PracticeSession(Translation_default,
                                         <<get_random_sentence(sents, pick)>>,
                                         type, FALSE, 0, 0, 0)
            IN [file |-> rd.file, sessions |-> [tbl EXCEPT ![chat] = session],
                out |-> Out("start", chat, "none", FALSE, NoWord, "started", FALSE, 0, net >= 1,
                            IF net >= 2 THEN 2 ELSE net, FALSE, net >= 2)]

\* faulty variant: the session is inserted after the two texts have been sent
start_practice_session_send_first(chat, type, pick, russian, net, f, sents, tbl) ==
    LET rd == read_translations(f)
    IN IF ~rd.ret.ok
       THEN [file |-> rd.file, sessions |-> tbl,
             out |-> Out("start", chat, "none", FALSE, NoWord, "none", FALSE, 0, FALSE, 0,
                         TRUE, FALSE)]
       ELSE IF rd.ret.recs = <<>> \/ sents = <<>>
       THEN [file |-> rd.file, sessions |-> tbl,
             out |-> Out("start", chat, "none", FALSE, NoWord, "refused", FALSE, 0, FALSE,
                         IF net >= 1 THEN 1 ELSE 0, FALSE, net >= 1)]
       ELSE LET session ==
                    IF type = WordTranslation
                    THEN PracticeSession(get_weighted_translation(rd.ret.recs, pick), <<>>,
                                         type, russian, 0, 0, 0)
                    ELSE PracticeSession(Translation_default,
                                         <<get_random_sentence(sents, pick)>>,
                                         type, FALSE, 0, 0, 0)
            IN [file |-> rd.file,
                sessions |-> IF net >= 2 THEN [tbl EXCEPT ![chat] = session] ELSE tbl,
                out |-> Out("start", chat, "none", FALSE, NoWord, "started", FALSE, 0, net >= 1,
                            IF net >= 2 THEN 2 ELSE net, FALSE, net >= 2)]

\* faulty variant: a session that is replaced hands its counters on
start_practice_session_keep_counters(chat, type, pick, russian, net, f, sents, tbl) ==
    LET rd == read_translations(f)
    IN IF ~rd.ret.ok
       THEN [file |-> rd.file, sessions |-> tbl,
             out |-> Out("start", chat, "none", FALSE, NoWord, "none", FALSE, 0, FALSE, 0,
                         TRUE, FALSE)]
       ELSE IF rd.ret.recs = <<>> \/ sents = <<>>
       THEN [file |-> rd.file, sessions |-> tbl,
             out |-> Out("start", chat, "none", FALSE, NoWord, "refused", FALSE, 0, FALSE,
                         IF net >= 1 THEN 1 ELSE 0, FALSE, net >= 1)]
       ELSE LET session ==
                    IF type = WordTranslation
                    THEN PracticeSession(get_weighted_translation(rd.ret.recs, pick), <<>>,
                                         type, russian, tbl[chat].words_practiced,
                                         tbl[chat].correct_answers, tbl[chat].wrong_answers)
                    ELSE PracticeSession(Translation_default,
                                         <<get_random_sentence(sents, pick)>>,
                                         type, FALSE, tbl[chat].words_practiced,
                                         tbl[chat].correct_answers, tbl[chat].wrong_answers)
            IN [file |-> rd.file, sessions |-> [tbl EXCEPT ![chat] = session],
                out |-> Out("start", chat, "none", FALSE, NoWord, "started", FALSE, 0, net >= 1,
                            IF net >= 2 THEN 2 ELSE net, FALSE, net >= 2)]

start_practice_session(chat, type, pick, russian, net, f, sents, tbl) ==
    LET rd == read_translations(f)
    IN IF ~rd.ret.ok
       THEN [file |-> rd.file, sessions |-> tbl,
             out |-> Out("start", chat, "none", FALSE, NoWord, "none", FALSE, 0, FALSE, 0,
                         TRUE, FALSE)]
       ELSE IF rd.ret.recs = <<>> \/ sents = <<>>
       THEN [file |-> rd.file, sessions |-> tbl,
             out |-> Out("start", chat, "none", FALSE, NoWord, "refused", FALSE, 0, FALSE,
                         IF net >= 1 THEN 1 ELSE 0, FALSE, net >= 1)]
       ELSE LET session ==
                    IF type = WordTranslation
                    THEN PracticeSession(get_weighted_translation(rd.ret.recs, pick), <<>>,
                                         type, russian, 0, 0, 0)
                    ELSE PracticeSession(Translation_default,
                                         <<get_random_sentence(sents, pick)>>,
                                         type, FALSE, 0, 0, 0)
            IN [file |-> rd.file, sessions |-> [tbl EXCEPT ![chat] = session],
                out |-> Out("start", chat, "none", FALSE, NoWord, "started", FALSE, 0, net >= 1,
                            IF net >= 2 THEN 2 ELSE net, FALSE, net >= 2)]

\* check_practice_answer, the word handed to update_translation_stats
\* faulty variant: the field the answer is expected in
answer_key_answer_side(session) ==
    IF session.expecting_russian
    THEN session.current_word.translation
    ELSE session.current_word.original

answer_key(session) ==
    IF session.expecting_russian
    THEN session.current_word.original
    ELSE session.current_word.translation

\* check_practice_answer, matches!(check_result.result, AnswerResult::Correct)
is_correct(result) == result = Correct

\* check_practice_answer, the counters of the clone after grading
\* faulty variant: an answer that is not correct is counted as practiced only
count_answer_practiced_only(session, correct) ==
    [session EXCEPT !.words_practiced = @ + 1,
                    !.correct_answers = IF correct THEN @ + 1 ELSE @]

count_answer(session, correct) ==
    [session EXCEPT !.words_practiced = @ + 1,
                    !.correct_answers = IF correct THEN @ + 1 ELSE @,
                    !.wrong_answers = IF correct THEN @ ELSE @ + 1]

\* check_practice_answer, whether format_practice_stats is appended to the
\* feedback; session is the clone after count_answer
\* faulty variant: the counter is tested before the answer is counted
stats_due_before_count(session) == (session.words_practiced - 1) % STATS_INTERVAL = 0

stats_due(session) == session.words_practiced % STATS_INTERVAL = 0

\* check_practice_answer, the next item written into the clone
\* faulty variant: the word branch resets current_word as the sentence branch does
next_item_default_word(session, type, pick, russian, translations, sents) ==
    IF type = WordTranslation
    THEN [session EXCEPT !.current_word = Translation_default,
                         !.current_sentence = <<>>,
                         !.practice_type = type,
                         !.expecting_russian = russian]
    ELSE [session EXCEPT !.current_sentence = <<get_random_sentence(sents, pick)>>,
                         !.current_word = Translation_default,
                         !.practice_type = type]

next_item(session, type, pick, russian, translations, sents) ==
    IF type = WordTranslation
    THEN [session EXCEPT !.current_word = get_weighted_translation(translations, pick),
                         !.current_sentence = <<>>,
                         !.practice_type = type,
                         !.expecting_russian = russian]
    ELSE [session EXCEPT !.current_sentence = <<get_random_sentence(sents, pick)>>,
                         !.current_word = Translation_default,
                         !.practice_type = type]

\* check_practice_answer from the clone of the session on: insert tells whether
\* sessions.insert is reached, session is the clone at that point
grade_answer(chat, session, result, type, pick, russian, net, f, sents) ==
    LET correct == is_correct(result)
        counted == count_answer(session, correct)
        summary == stats_due(counted)
        shown == IF summary THEN counted.words_practiced ELSE 0
        word_mode == session.practice_type = WordTranslation
        key == IF word_mode THEN answer_key(counted) ELSE NoWord
        up == IF word_mode
              THEN update_translation_stats(key, correct, f)
              ELSE [file |-> f, ret |-> OkUnit]
        rd == read_translations(up.file)
        drawn == IF type = WordTranslation
                 THEN get_weighted_translation(rd.ret.recs, pick)
                 ELSE get_random_sentence(sents, pick)
    IN IF ~up.ret.ok
       THEN [insert |-> FALSE, session |-> counted, file |-> up.file,
             out |-> Out("answer", chat, result, word_mode, key, "none", FALSE, 0, FALSE, 0,
                         TRUE, FALSE)]
       ELSE IF net = 0
       THEN [insert |-> FALSE, session |-> counted, file |-> up.file,
             out |-> Out("answer", chat, result, word_mode, key, "graded", summary, shown, FALSE, 0,
                         FALSE, FALSE)]
       ELSE IF ~correct
       THEN [insert |-> TRUE, session |-> counted, file |-> up.file,
             out |-> Out("answer", chat, result, word_mode, key, "graded", summary, shown, FALSE, 1,
                         FALSE, TRUE)]
       ELSE IF ~rd.ret.ok
       THEN [insert |-> FALSE, session |-> counted, file |-> rd.file,
             out |-> Out("answer", chat, result, word_mode, key, "graded", summary, shown, FALSE, 1,
                         TRUE, FALSE)]
       ELSE IF drawn = None
       THEN [insert |-> FALSE, session |-> counted, file |-> rd.file,
             out |-> Out("answer", chat, result, word_mode, key, "graded", summary, shown, FALSE, 1,
                         FALSE, TRUE)]
       ELSE IF net < 2
       THEN [insert |-> FALSE,
             session |-> next_item(counted, type, pick, russian, rd.ret.recs, sents),
             file |-> rd.file,
             out |-> Out("answer", chat, result, word_mode, key, "graded", summary, shown, TRUE, 1,
                         FALSE, FALSE)]
       ELSE [insert |-> TRUE,
             session |-> next_item(counted, type, pick, russian, rd.ret.recs, sents),
             file |-> rd.file,
             out |-> Out("answer", chat, result, word_mode, key, "graded", summary, shown, TRUE, 2,
                         FALSE, TRUE)]

\* check_practice_answer: [file, sessions, out]
\* faulty variant: the clone is put back before the store is called, so it is in
\* the table on every path
check_practice_answer_insert_first(chat, result, type, pick, russian, net, f, sents, tbl) ==
    IF ~tbl[chat].present
    THEN [file |-> f, sessions |-> tbl,
          out |-> Out("answer", chat, result, FALSE, NoWord, "none", FALSE, 0, FALSE, 0,
                      FALSE, TRUE)]
    ELSE LET g == grade_answer(chat, tbl[chat], result, type, pick, russian, net, f, sents)
         IN [file |-> g.file,
             sessions |-> [tbl EXCEPT ![chat] =
                             IF g.insert THEN g.session
                             ELSE count_answer(tbl[chat], is_correct(result))],
             out |-> g.out]

check_practice_answer(chat, result, type, pick, russian, net, f, sents, tbl) ==
    IF ~tbl[chat].present
    THEN [file |-> f, sessions |-> tbl,
          out |-> Out("answer", chat, result, FALSE, NoWord, "none", FALSE, 0, FALSE, 0,
                      FALSE, TRUE)]
    ELSE LET g == grade_answer(chat, tbl[chat], result, type, pick, russian, net, f, sents)
         IN [file |-> g.file,
             sessions |-> IF g.insert THEN [tbl EXCEPT ![chat] = g.session] ELSE tbl,
             out |-> g.out]

\* stop_practice_session: [sessions, out]; the summary is formatted whenever the
\* chat has a session
\* faulty variant: the summary is left out of the text of a session without answers
stop_practice_session_summary_if_any(chat, net, tbl) ==
    LET summary == tbl[chat].present /\ tbl[chat].words_practiced > 0
        shown == IF summary THEN tbl[chat].words_practiced ELSE 0
    IN IF net = 0
       THEN [sessions |-> tbl,
             out |-> Out("stop", chat, "none", FALSE, NoWord, "stopped", summary, shown,
                         FALSE, 0, FALSE, FALSE)]
       ELSE [sessions |-> [tbl EXCEPT ![chat] = NoSession],
             out |-> Out("stop", chat, "none", FALSE, NoWord, "stopped", summary, shown,
                         FALSE, 1, FALSE, TRUE)]

stop_practice_session(chat, net, tbl) ==
    LET summary == tbl[chat].present
        shown == IF summary THEN tbl[chat].words_practiced ELSE 0
    IN IF net = 0
       THEN [sessions |-> tbl,
             out |-> Out("stop", chat, "none", FALSE, NoWord, "stopped", summary, shown,
                         FALSE, 0, FALSE, FALSE)]
       ELSE [sessions |-> [tbl EXCEPT ![chat] = NoSession],
             out |-> Out("stop", chat, "none", FALSE, NoWord, "stopped", summary, shown,
                         FALSE, 1, FALSE, TRUE)]

(***************************************************************************)
(* Practice sessions: handlers, one action each.  A session handler holds  *)
(* the lock of the table from its first access to its return.              *)
(***************************************************************************)
\* the collection a handler reads from the storage file
Stored(f) == read_translations(f).ret.recs

\* handle_command, Command::Practice
CommandPractice(chat, type, pick, russian, net) ==
    /\ pick \in Picks(IF type = WordTranslation THEN Stored(file) ELSE sentences)
    /\ \E res \in {start_practice_session(chat, type, pick, russian, net, file, sentences,
                                           sessions)} :
       /\ file' = res.file
       /\ sessions' = res.sessions
       /\ out' = res.out
       /\ last' = NoCall
       /\ UNCHANGED <<proc, sentences, calc, task, holder, locks>>

\* handle_message while the chat is practicing
HandleMessageAnswer(chat, result, type, pick, russian, net) ==
    /\ sessions[chat].present
    /\ sessions[chat].words_practiced < MaxAttempts
    /\ result # Correct => sessions[chat].wrong_answers < MaxWrong
    /\ sessions[chat].practice_type = SentenceCompletion
         => result \in {Correct, Wrong}
    /\ pick \in Picks(IF type = WordTranslation THEN Stored(file) ELSE sentences)
    /\ \E res \in {check_practice_answer(chat, result, type, pick, russian, net, file,
                                          sentences, sessions)} :
       /\ TotalAnswers(res.file.recs) <= MaxBumps
       /\ file' = res.file
       /\ sessions' = res.sessions
       /\ out' = res.out
       /\ last' = NoCall
       /\ UNCHANGED <<proc, sentences, calc, task, holder, locks>>

\* handle_command, Command::Stop
CommandStop(chat, net) ==
    LET res == stop_practice_session(chat, net, sessions)
    IN /\ sessions' = res.sessions
       /\ out' = res.out
       /\ last' = NoCall
       /\ UNCHANGED <<file, proc, sentences, calc, task, holder, locks>>

\* the storage file is overwritten from outside the bot with text that is not
\* a JSON array of records
StorageDamaged ==
    /\ file.state = "ok"
    /\ file' = File("malformed", <<>>)
    /\ last' = NoCall
    /\ UNCHANGED proc
    /\ NoSessionStep

\* the records the other chats look up while a chat practices
PracticeInputs == {<<S_a, R_ab>>, <<S_b, R_bc>>}

\* the storage file when the bot starts: not there yet, or left malformed
InitSessionFiles == {File("absent", <<>>), File("malformed", <<>>)}

InitSession ==
    /\ file \in InitSessionFiles
    /\ last = NoCall
    /\ proc = [p \in Procs |-> Idle]
    /\ sentences \in SentenceFiles
    /\ InitSessions

\* the draws a handler makes: none after an answer that is not Correct, no
\* direction for a sentence
Draws(result) ==
    IF result # Correct THEN {<<WordTranslation, 1, FALSE>>}
    ELSE {<<WordTranslation, pick, russian>> : pick \in 1..MaxLen, russian \in BOOLEAN}
           \cup {<<SentenceCompletion, pick, FALSE>> : pick \in 1..MaxLen}

\* the texts a handler hands to the transport at most: one after an answer
\* that is not Correct
Sends(result) == IF result # Correct THEN 0..1 ELSE Deliveries

NextSession ==
    \/ \E chat \in Chats, d \in Draws(Correct), net \in Deliveries :
          CommandPractice(chat, d[1], d[2], d[3], net)
    \/ \E chat \in Chats, result \in AnswerResults :
          \E d \in Draws(result), net \in Sends(result) :
            HandleMessageAnswer(chat, result, d[1], d[2], d[3], net)
    \/ \E chat \in Chats, net \in 0..1 : CommandStop(chat, net)
    \/ \E i \in PracticeInputs : HandleMessageLookup(i[1], i[2])
    \/ CommandClear
    \/ StorageDamaged

SpecSession == InitSession /\ [][NextSession]_vars

(***************************************************************************)
(* Two answers handled concurrently.  check_practice_answer takes the lock *)
(* of the session table first and keeps it until it returns; the steps of  *)
(* a handler are the places where another task can run.                    *)
(***************************************************************************)
\* tokio::sync::Mutex::lock: granted when no task holds the lock
\* faulty variant: the lock excludes nobody
lock_granted_always(h) == TRUE

lock_granted(h) == h = 0

\* handle_message: the text of a practising chat goes to check_practice_answer
AnswerReceived(t, chat, result) ==
    /\ task[t].pc = "idle"
    /\ lock_granted(holder)
    /\ sessions[chat].present
    /\ task' = [task EXCEPT ![t] = [pc |-> "lock", op |-> "answer", chat |-> chat,
                                    result |-> result, local |-> NoSession, ok |-> TRUE]]
    /\ out' = NoOut
    /\ UNCHANGED <<file, last, proc, sentences, calc, sessions, holder, locks>>

\* let mut sessions = sessions.lock().await
AnswerLock(t) ==
    /\ task[t].pc = "lock"
    /\ lock_granted(holder)
    /\ holder' = t
    /\ task' = [task EXCEPT ![t].pc = "get"]
    /\ out' = NoOut
    /\ UNCHANGED <<file, last, proc, sentences, calc, sessions, locks>>

\* sessions.get(&msg.chat.id.0).cloned(); without a session the handler returns
AnswerGet(t) ==
    /\ task[t].pc = "get"
    /\ IF sessions[task[t].chat].present
       THEN /\ task' = [task EXCEPT ![t].local = sessions[task[t].chat], ![t].pc = "grade"]
            /\ UNCHANGED holder
       ELSE /\ task' = [task EXCEPT ![t].pc = "done"]
            /\ holder' = 0
    /\ out' = NoOut
    /\ UNCHANGED <<file, last, proc, sentences, calc, sessions, locks>>

\* the rest of check_practice_answer, on the clone; the lock is dropped on return
AnswerGrade(t) ==
    /\ task[t].pc = "grade"
    /\ \E d \in Draws(task[t].result), net \in Sends(task[t].result) :
       /\ d[2] \in Picks(IF d[1] = WordTranslation THEN Stored(file) ELSE sentences)
       /\ \E g \in {grade_answer(task[t].chat, task[t].local, task[t].result, d[1], d[2],
                                  d[3], net, file, sentences)} :
          /\ file' = g.file
          /\ sessions' = IF g.insert THEN [sessions EXCEPT ![task[t].chat] = g.session]
                         ELSE sessions
          /\ out' = g.out
          /\ task' = [task EXCEPT ![t].pc = "done", ![t].ok = g.out.ok]
    /\ holder' = IF holder = t THEN 0 ELSE holder
    /\ last' = NoCall
    /\ UNCHANGED <<proc, sentences, calc, locks>>

\* /practice before the two answers arrive
PracticeFirst(chat, type, pick, russian) ==
    /\ \A t \in Tasks : task[t].pc = "idle"
    /\ lock_granted(holder)
    /\ ~sessions[chat].present
    /\ CommandPractice(chat, type, pick, russian, 2)

InitLock ==
    /\ file = File("absent", <<>>)
    /\ last = NoCall
    /\ proc = [p \in Procs |-> Idle]
    /\ sentences = PracticeSentences
    /\ InitSessions

NextLock ==
    \/ \E i \in PracticeInputs : HandleMessageLookup(i[1], i[2])
    \/ CommandClear
    \/ \E chat \in Chats, d \in Draws(Correct) : PracticeFirst(chat, d[1], d[2], d[3])
    \/ \E t \in Tasks, chat \in Chats, result \in AnswerResults :
          AnswerReceived(t, chat, result)
    \/ \E t \in Tasks : AnswerLock(t)
    \/ \E t \in Tasks : AnswerGet(t)
    \/ \E t \in Tasks : AnswerGrade(t)

SpecLock == InitLock /\ [][NextLock]_vars

(***************************************************************************)
(* /stop and an answer of one chat handled concurrently.  Task 1 handles   *)
(* the answer, task 2 the command.  stop_practice_session takes the lock   *)
(* of the session table at its first line and keeps it until it returns.   *)
(***************************************************************************)
\* handle_command, Command::Stop: the command goes to stop_practice_session
StopReceived(t, chat) ==
    /\ task[t].pc = "idle"
    /\ task' = [task EXCEPT ![t] = [pc |-> "stop_lock", op |-> "stop", chat |-> chat,
                                    result |-> "none", local |-> NoSession, ok |-> TRUE]]
    /\ out' = NoOut
    /\ UNCHANGED <<file, last, proc, sentences, calc, sessions, holder, locks>>

\* let mut sessions = sessions.lock().await
StopLock(t) ==
    /\ task[t].pc = "stop_lock"
    /\ lock_granted(holder)
    /\ holder' = t
    /\ task' = [task EXCEPT ![t].pc = "stop"]
    /\ out' = NoOut
    /\ UNCHANGED <<file, last, proc, sentences, calc, sessions, locks>>

\* the rest of stop_practice_session; the lock is dropped on return
StopRun(t) ==
    /\ task[t].pc = "stop"
    /\ \E net \in 0..1 :
         \E res \in {stop_practice_session(task[t].chat, net, sessions)} :
           /\ sessions' = res.sessions
           /\ out' = res.out
           /\ task' = [task EXCEPT ![t].pc = "done", ![t].ok = res.out.ok]
    /\ holder' = IF holder = t THEN 0 ELSE holder
    /\ last' = NoCall
    /\ UNCHANGED <<file, proc, sentences, calc, locks>>

NextStop ==
    \/ \E i \in PracticeInputs : HandleMessageLookup(i[1], i[2])
    \/ \E chat \in Chats, d \in Draws(Correct) : PracticeFirst(chat, d[1], d[2], d[3])
    \/ \E chat \in Chats, result \in AnswerResults : AnswerReceived(1, chat, result)
    \/ AnswerLock(1)
    \/ AnswerGet(1)
    \/ AnswerGrade(1)
    \/ \E chat \in Chats : StopReceived(2, chat)
    \/ StopLock(2)
    \/ StopRun(2)

SpecStop == InitLock /\ [][NextStop]_vars

(***************************************************************************)
(* The locking order of the handlers.  A handler is the sequence of its    *)
(* lock statements: Lock(l) is l.lock().await, Drop(l) the end of the      *)
(* guard's life.  Which branch a handler takes depends on the tables; here *)
(* every branch can be taken at any time.  tokio's Mutex is fair: a lock   *)
(* that is released goes to the handler that has waited longest.  The I/O  *)
(* between two statements ends, so a handler that can take its next step   *)
(* takes it.                                                               *)
(***************************************************************************)
Lock(l) == <<"lock", l>>
Drop(l) == <<"drop", l>>

\* handle_message, the picture mode test (263-268)
check_picture_mode == <<Lock("picture"), Drop("picture")>>

\* handle_message, the talk mode test (273-275)
check_talk_mode == <<Lock("talk"), Drop("talk")>>

\* handle_message, is_practicing and is_deleting (284-285): each guard is a
\* temporary of its statement
check_modes == <<Lock("practice"), Drop("practice"), Lock("delete"), Drop("delete")>>

\* handle_picture_message: the table is locked after the I/O
handle_picture_message == <<Lock("picture"), Drop("picture")>>

\* handle_talk_message: use_chatgpt is read while the talk table is locked, and
\* the talk table stays locked until the function returns
handle_talk_message == <<Lock("talk"), Lock("chatgpt"), Drop("chatgpt"), Drop("talk")>>

\* start_practice_session, check_practice_answer, stop_practice_session: one
\* guard of the practice table, held to the return
practice_locks == <<Lock("practice"), Drop("practice")>>

\* handle_message, let use_chatgpt = *use_chatgpt.lock().await (334)
read_use_chatgpt == <<Lock("chatgpt"), Drop("chatgpt")>>

\* handle_message, one sequence per branch
handle_message ==
    { check_picture_mode \o handle_picture_message,
      check_picture_mode \o check_talk_mode \o handle_talk_message,
      check_picture_mode \o check_talk_mode \o check_modes \o practice_locks,
      check_picture_mode \o check_talk_mode \o check_modes,
      check_picture_mode \o check_talk_mode \o check_modes \o read_use_chatgpt }

\* handle_command, Command::UseChatGPT and Command::UseClaude: the guard is held
\* while the reply is sent
\* faulty variant: the talk table is locked while use_chatgpt is held
set_use_chatgpt_in_talk ==
    <<Lock("chatgpt"), Lock("talk"), Drop("talk"), Drop("chatgpt")>>

set_use_chatgpt == <<Lock("chatgpt"), Drop("chatgpt")>>

\* handle_command, one sequence per command that takes a lock: Practice and
\* Stop; Delete and StopDelete; Story; UseChatGPT and UseClaude; Talk and
\* StopTalk; Pic and Stoppic
handle_command ==
    { practice_locks,
      <<Lock("delete"), Drop("delete")>>,
      read_use_chatgpt,
      set_use_chatgpt,
      <<Lock("talk"), Drop("talk")>>,
      <<Lock("picture"), Drop("picture")>> }

\* the statement handler h is at
Statement(h) == locks.prog[h][locks.pc[h]]

\* pc after the statement: 0 once the handler has returned
Advanced(h) == IF locks.pc[h] = Len(locks.prog[h]) THEN 0 ELSE locks.pc[h] + 1

\* the other variables of the specification of the locking order
LockStep == UNCHANGED <<file, last, proc, sentences, sessions, out, task, holder, calc>>

\* the dispatcher hands an update to handle_message or handle_command
HandlerStarts(h, program) ==
    /\ locks.pc[h] = 0
    /\ locks' = [locks EXCEPT !.prog[h] = program, !.pc[h] = 1]
    /\ LockStep

\* l.lock().await is reached: the lock is taken when it is free and nobody
\* waits, otherwise the handler joins the queue
LockRequested(h) ==
    /\ locks.pc[h] > 0
    /\ Statement(h)[1] = "lock"
    /\ \E l \in {Statement(h)[2]} :
         /\ \A i \in DOMAIN locks.queue[l] : locks.queue[l][i] # h
         /\ IF locks.holder[l] = 0 /\ locks.queue[l] = <<>>
            THEN locks' = [locks EXCEPT !.holder[l] = h, !.pc[h] = Advanced(h)]
            ELSE locks' = [locks EXCEPT !.queue[l] = Append(@, h)]
    /\ LockStep

\* the lock is free and h has waited longest
LockGranted(h) ==
    /\ locks.pc[h] > 0
    /\ Statement(h)[1] = "lock"
    /\ \E l \in {Statement(h)[2]} :
         /\ locks.holder[l] = 0
         /\ locks.queue[l] # <<>>
         /\ Head(locks.queue[l]) = h
         /\ locks' = [locks EXCEPT !.holder[l] = h, !.queue[l] = Tail(@),
                                   !.pc[h] = Advanced(h)]
    /\ LockStep

\* the guard goes out of scope
LockDropped(h) ==
    /\ locks.pc[h] > 0
    /\ Statement(h)[1] = "drop"
    /\ \E l \in {Statement(h)[2]} :
         locks' = [locks EXCEPT !.holder[l] = 0, !.pc[h] = Advanced(h)]
    /\ LockStep

NextLocks ==
    \/ \E h \in Handlers, program \in handle_message : HandlerStarts(h, program)
    \/ \E h \in Handlers, program \in handle_command : HandlerStarts(h, program)
    \/ \E h \in Handlers : LockRequested(h)
    \/ \E h \in Handlers : LockGranted(h)
    \/ \E h \in Handlers : LockDropped(h)

\* fair scheduling and terminating I/O: a handler whose next statement can be
\* executed executes it
FairHandlers ==
    \A h \in Handlers :
      /\ WF_vars(LockRequested(h))
      /\ WF_vars(LockGranted(h))
      /\ WF_vars(LockDropped(h))

\* main: the tables are empty and the locks free
SpecLocks == InitLock /\ [][NextLocks]_vars /\ FairHandlers

(***************************************************************************)
(* The sampler (get_weighted_translation) with its arithmetic.  The        *)
(* counters are u32; the model keeps their wrap-around at CounterBits bits.*)
(* A sum that does not fit aborts the thread in a build with overflow      *)
(* checks and wraps in a build without them.  The f64 weights are kept as  *)
(* exact fractions [num, den]; the rounding of the f64 product, sum and    *)
(* subtractions is the input err of the draw.                              *)
(***************************************************************************)
\* width of the counters in the model
CounterBits == 4
\* the draws of rng.gen::<f64>() are the multiples of 1/DrawSteps
DrawSteps == 4

\* u32::MAX + 1
CounterModulus == 2 ^ CounterBits

\* a + b on u32: [panic, value]
u32_add(a, b, overflow_checks) ==
    IF a + b < CounterModulus THEN [panic |-> FALSE, value |-> a + b]
    ELSE IF overflow_checks THEN [panic |-> TRUE, value |-> 0]
    ELSE [panic |-> FALSE, value |-> (a + b) % CounterModulus]

Fraction(num, den) == [num |-> num, den |-> den]

\* the closure of the map at lines 89-98, given total
weight_of(t, total) ==
    IF total = 0 THEN Fraction(2, 1)
    ELSE Fraction(total + t.wrong_answers, total)

\* let total = t.correct_answers + t.wrong_answers, for every record
totals(translations, overflow_checks) ==
    [i \in DOMAIN translations |->
       u32_add(translations[i].correct_answers, translations[i].wrong_answers,
               overflow_checks)]

\* the vector weights
weights_of(translations, overflow_checks) ==
    LET tot == totals(translations, overflow_checks)
    IN [i \in DOMAIN translations |-> weight_of(translations[i], tot[i].value)]

RECURSIVE Product(_)
Product(dens) == IF dens = <<>> THEN 1 ELSE Head(dens) * Product(Tail(dens))

RECURSIVE Sum(_)
Sum(ws) == IF ws = <<>> THEN 0 ELSE Head(ws) + Sum(Tail(ws))

\* the weights in units of 1 / (DrawSteps * product of the denominators)
scaled(weights) ==
    LET d == Product([i \in DOMAIN weights |-> weights[i].den])
    IN [i \in DOMAIN weights |-> DrawSteps * weights[i].num * (d \div weights[i].den)]

\* the for loop at lines 105-110: the position at which random_value is at or
\* below 0 after the subtraction, 0 when the loop runs out
RECURSIVE weighted_scan(_, _, _)
weighted_scan(ws, i, random_value) ==
    IF i > Len(ws) THEN 0
    ELSE IF random_value - ws[i] <= 0 THEN i
    ELSE weighted_scan(ws, i + 1, random_value - ws[i])

\* a draw: rng.gen::<f64>() is k / DrawSteps (k = DrawSteps: so close to 1
\* that the product rounds to total_weight), err is what rounding adds
Rng(k, err) == [k |-> k, err |-> err]
Rngs == {Rng(k, err) : k \in 0..DrawSteps, err \in 0..1}

\* the result of a call: panic, or Some(value) / None, with the weights used
Sampled(panic, some, value, weights, at) ==
    [panic |-> panic, some |-> some, value |-> value, weights |-> weights, at |-> at]

\* get_weighted_translation with its draw
get_weighted_translation_rng(translations, rng, overflow_checks) ==
    LET w == weights_of(translations, overflow_checks)
    IN IF translations = <<>> THEN Sampled(FALSE, FALSE, Translation_default, <<>>, 0)
       ELSE IF \E i \in DOMAIN translations : totals(translations, overflow_checks)[i].panic
       THEN Sampled(TRUE, FALSE, Translation_default, <<>>, 0)
       ELSE LET ws == scaled(w)
                random_value == (rng.k * Sum(ws)) \div DrawSteps + rng.err
                i == weighted_scan(ws, 1, random_value)
            IN IF i # 0 THEN Sampled(FALSE, TRUE, translations[i], w, i)
               ELSE Sampled(FALSE, TRUE, translations[1], w, 0)

(***************************************************************************)
(* The sampler: the calls.  The collection is what the storage file holds  *)
(* when practice reads it; imports set the counters to any u32, answers    *)
(* raise them between two calls.                                           *)
(***************************************************************************)
\* the counters <<correct_answers, wrong_answers>> of the stored records
SampleCounters ==
    { <<0, 0>>, <<1, 0>>, <<0, 1>>, <<1, 9>>, <<10, 0>>,
      <<CounterModulus - 1, 1>>, <<CounterModulus - 1, 2>> }

SampleRecords ==
    {Translation(S_a, S_b, <<>>, p[1], p[2]) : p \in SampleCounters}
      \cup {Translation(S_b, S_c, <<>>, p[1], p[2]) : p \in SampleCounters}

SampleCollections ==
    {<<>>} \cup {<<r>> : r \in SampleRecords}
      \cup {<<r, s>> : r \in {x \in SampleRecords : x.original = S_a},
                       s \in {x \in SampleRecords : x.original = S_b}}

\* calc of the sampler
SampleCalc(records, checks, bumps, called, rng, ret) ==
    [fn |-> "sample", records |-> records, overflow_checks |-> checks,
     bumps |-> bumps, called |-> called, rng |-> rng, ret |-> ret]

NoSampled == Sampled(FALSE, FALSE, Translation_default, <<>>, 0)

\* the other variables of a specification of a pure function
NoStore ==
    /\ file = File("absent", <<>>)
    /\ last = NoCall
    /\ proc = [p \in Procs |-> Idle]
    /\ sentences = <<>>
    /\ sessions = [c \in Chats |-> NoSession]
    /\ out = NoOut
    /\ task = [t \in Tasks |-> IdleTask]
    /\ holder = 0
    /\ locks = NoLocks

CalcStep == UNCHANGED <<file, last, proc, sentences, sessions, out, task, holder, locks>>

InitSample ==
    /\ NoStore
    /\ \E records \in SampleCollections, checks \in BOOLEAN :
         calc = SampleCalc(records, checks, 0, FALSE, Rng(0, 0), NoSampled)

\* practice draws a record from the collection
SampleCall(rng) ==
    /\ calc.fn = "sample"
    /\ ~calc.called
    /\ calc' = [calc EXCEPT !.called = TRUE, !.rng = rng,
                            !.ret = get_weighted_translation_rng(calc.records, rng,
                                                                 calc.overflow_checks)]
    /\ CalcStep

\* an answer is graded between two draws: update_translation_stats raises a
\* counter of record i
SampleBump(i, correct) ==
    /\ calc.fn = "sample"
    /\ calc.called
    /\ ~calc.ret.panic
    /\ calc.bumps < MaxBumps
    /\ i \in DOMAIN calc.records
    /\ (IF correct THEN calc.records[i].correct_answers
                   ELSE calc.records[i].wrong_answers) < CounterModulus - 1
    /\ calc' = [calc EXCEPT !.records = stats_bump(calc.records, i, correct),
                            !.bumps = calc.bumps + 1,
                            !.called = FALSE]
    /\ CalcStep

NextSample ==
    \/ \E rng \in Rngs : SampleCall(rng)
    \/ \E i \in 1..2, correct \in BOOLEAN : SampleBump(i, correct)

SpecSample == InitSample /\ [][NextSample]_vars

(***************************************************************************)
(* The answer matcher (check_answer and the functions it calls).           *)
(* strsim::jaro_winkler belongs to a library: two equal strings score 1,   *)
(* an empty string against one that is not empty scores 0, and the score   *)
(* of any other pair is an input of the call (sim, keyed by the second     *)
(* argument).  Scores are in hundredths.                                   *)
(***************************************************************************)
\* const SIMILARITY_THRESHOLD, in hundredths
SIMILARITY_THRESHOLD == 85

\* const ARTICLES
S_der == <<"d", "e", "r">>
S_die == <<"d", "i", "e">>
S_das == <<"d", "a", "s">>
ARTICLES == {S_der, S_die, S_das}

\* char::is_alphabetic on the characters the model uses
is_alphabetic(c) ==
    c \in {"a", "b", "c", "d", "e", "i", "r", "s", "z", "A", "B", "u", "h", "w", "S", "ya"}

\* normalize
normalize(text) ==
    SelectSeq(to_lowercase(trim(text)), LAMBDA c : is_alphabetic(c) \/ is_whitespace(c))

\* str::split(sep): the segments between the separators, empty ones included
RECURSIVE split_acc(_, _, _)
split_acc(s, sep, segment) ==
    IF s = <<>> THEN <<segment>>
    ELSE IF Head(s) = sep THEN <<segment>> \o split_acc(Tail(s), sep, <<>>)
    ELSE split_acc(Tail(s), sep, Append(segment, Head(s)))

split(s, sep) == split_acc(s, sep, <<>>)

\* str::split_whitespace: the maximal runs of characters that are not whitespace
split_whitespace(s) == SelectSeq(split(s, " "), LAMBDA w : w # <<>>)

\* Vec::contains
contains(seq, x) == \E i \in DOMAIN seq : seq[i] = x

\* Iterator::map over a sequence
Map(Op(_), seq) == [i \in DOMAIN seq |-> Op(seq[i])]

\* Iterator::flat_map: the concatenation of a sequence of sequences
RECURSIVE Flatten(_)
Flatten(seqs) == IF seqs = <<>> THEN <<>> ELSE Head(seqs) \o Flatten(Tail(seqs))

\* Option<Vec<String>>
NoLines == [some |-> FALSE, lines |-> <<>>]
SomeLines(lines) == [some |-> TRUE, lines |-> lines]

\* struct Translation with all its fields, as the parser builds it and the
\* matcher reads it
FullTranslation(o, t, forms, conj, ex) ==
    [original |-> o, translation |-> t, grammar_forms |-> forms,
     conjugations |-> conj, examples |-> ex,
     correct_answers |-> 0, wrong_answers |-> 0]

\* strsim::jaro_winkler
jaro_winkler(a, b, sim) ==
    IF a = b THEN 100
    ELSE IF a = <<>> \/ b = <<>> THEN 0
    ELSE sim[b]

\* the comparisons with SIMILARITY_THRESHOLD (lines 232, 284, 338)
\* faulty variant: the threshold itself passes
above_threshold_or_equal(similarity) == similarity >= SIMILARITY_THRESHOLD

above_threshold(similarity) == similarity > SIMILARITY_THRESHOLD

\* .max_by(partial_cmp).unwrap_or(0.0)
best_match(a, variants, sim) ==
    IF variants = <<>> THEN 0
    ELSE LET scores == {jaro_winkler(a, variants[i], sim) : i \in DOMAIN variants}
         IN CHOOSE m \in scores : \A n \in scores : n <= m

\* struct AnswerCheck with its enum AnswerResult
AnswerCheck(result, expected, similarity, feedback) ==
    [result |-> result, expected |-> expected, similarity |-> similarity,
     feedback |-> feedback]

\* the variants of check_russian_answer: the comma-separated segments of the
\* translation and the Russian side of every example
expected_variants(translation) ==
    Map(normalize, split(translation.translation, ","))
      \o [i \in DOMAIN translation.examples |-> normalize(translation.examples[i].russian)]

\* check_russian_answer
\* faulty variant: only the whole translation is an exact match
check_russian_answer_whole_only(answer, translation, sim) ==
    LET expected == normalize(translation.translation)
        variants == expected_variants(translation)
    IN IF answer = expected
       THEN AnswerCheck(Correct, <<>>, 0, FALSE)
       ELSE LET best == best_match(answer, variants, sim)
            IN IF above_threshold(best)
               THEN AnswerCheck(AlmostCorrect, translation.translation, best, FALSE)
               ELSE AnswerCheck(Wrong, translation.translation, 0, FALSE)

check_russian_answer(answer, translation, sim) ==
    LET expected == normalize(translation.translation)
        variants == expected_variants(translation)
    IN IF contains(variants, answer) \/ answer = expected
       THEN AnswerCheck(Correct, <<>>, 0, FALSE)
       ELSE LET best == best_match(answer, variants, sim)
            IN IF above_threshold(best)
               THEN AnswerCheck(AlmostCorrect, translation.translation, best, FALSE)
               ELSE AnswerCheck(Wrong, translation.translation, 0, FALSE)

\* format!("{} {}", expected_article, expected_noun)
expected_article(translation) ==
    IF translation.grammar_forms = <<>> THEN <<>>
    ELSE to_lowercase(trim(translation.grammar_forms[1]))

expected_noun(translation) == normalize(translation.original)

expected_with_article(translation) ==
    expected_article(translation) \o <<" ">> \o expected_noun(translation)

\* check_german_noun_answer
\* faulty variant: the article of the answer is not compared
check_german_noun_answer_any_article(answer, translation, sim) ==
    LET expected == expected_with_article(translation)
        parts == split_whitespace(answer)
    IN IF Len(parts) >= 2
       THEN LET similarity == jaro_winkler(normalize(parts[2]), expected_noun(translation), sim)
            IN IF above_threshold(similarity)
               THEN AnswerCheck(Correct, <<>>, 0, FALSE)
               ELSE AnswerCheck(AlmostCorrect, expected, similarity, FALSE)
       ELSE AnswerCheck(Wrong, expected, 0, TRUE)

\* faulty variant: the noun is the last token of the answer
check_german_noun_answer_last_token(answer, translation, sim) ==
    LET expected == expected_with_article(translation)
        parts == split_whitespace(answer)
    IN IF Len(parts) >= 2
       THEN IF to_lowercase(parts[1]) # expected_article(translation)
            THEN AnswerCheck(WrongArticle, expected, 0, FALSE)
            ELSE LET similarity == jaro_winkler(normalize(parts[Len(parts)]),
                                                expected_noun(translation), sim)
                 IN IF above_threshold(similarity)
                    THEN AnswerCheck(Correct, <<>>, 0, FALSE)
                    ELSE AnswerCheck(AlmostCorrect, expected, similarity, FALSE)
       ELSE AnswerCheck(Wrong, expected, 0, TRUE)

check_german_noun_answer(answer, translation, sim) ==
    LET expected == expected_with_article(translation)
        parts == split_whitespace(answer)
    IN IF Len(parts) >= 2
       THEN IF to_lowercase(parts[1]) # expected_article(translation)
            THEN AnswerCheck(WrongArticle, expected, 0, FALSE)
            ELSE LET similarity == jaro_winkler(normalize(parts[2]),
                                                expected_noun(translation), sim)
                 IN IF above_threshold(similarity)
                    THEN AnswerCheck(Correct, <<>>, 0, FALSE)
                    ELSE AnswerCheck(AlmostCorrect, expected, similarity, FALSE)
       ELSE AnswerCheck(Wrong, expected, 0, TRUE)

\* conj.split_whitespace().last(), for the lines that have a token
last_tokens(lines) ==
    LET tokens == Map(split_whitespace, lines)
    IN Map(LAMBDA w : w[Len(w)], SelectSeq(tokens, LAMBDA w : w # <<>>))

\* the variants of check_german_word_answer
correct_variants(translation) ==
    <<normalize(translation.original)>>
      \o (IF translation.conjugations.some
          THEN Map(normalize, last_tokens(translation.conjugations.lines))
          ELSE <<>>)
      \o Map(normalize,
             Flatten([i \in DOMAIN translation.examples |->
                        split_whitespace(translation.examples[i].german)]))

\* check_german_word_answer
check_german_word_answer(answer, translation, sim) ==
    LET variants == correct_variants(translation)
    IN IF contains(variants, answer)
       THEN AnswerCheck(Correct, <<>>, 0, FALSE)
       ELSE LET best == best_match(answer, variants, sim)
            IN IF above_threshold(best)
               THEN AnswerCheck(AlmostCorrect, translation.original, best, FALSE)
               ELSE AnswerCheck(Wrong, translation.original, 0, FALSE)

\* the test is_noun of check_german_answer
is_noun(translation) ==
    /\ translation.grammar_forms # <<>>
    /\ trim(translation.grammar_forms[1]) \in ARTICLES

\* check_german_answer
check_german_answer(answer, translation, sim) ==
    IF is_noun(translation)
    THEN check_german_noun_answer(answer, translation, sim)
    ELSE check_german_word_answer(answer, translation, sim)

\* check_answer
check_answer(answer, translation, expecting_russian, sim) ==
    IF expecting_russian
    THEN check_russian_answer(normalize(answer), translation, sim)
    ELSE check_german_answer(normalize(answer), translation, sim)

(***************************************************************************)
(* The answer matcher: the calls.  A question is open (record, direction), *)
(* the user types an answer, check_answer grades it.                       *)
(***************************************************************************)
\* a record with two glosses and an example
M_gloss ==
    FullTranslation(S_z, <<"a", ",", " ", "b">>, <<>>, NoLines,
                    <<Example(<<"z", " ", "c">>, <<"c", "!">>)>>)
\* a verb: a grammar form that is no article, one conjugation line
M_verb ==
    FullTranslation(S_z, S_a, <<<<"z", "b">>>>, SomeLines(<<<<"i", " ", "b">>>>), <<>>)
\* a noun: the first grammar form is an article
M_noun == FullTranslation(<<"A", "b">>, S_c, <<S_der>>, NoLines, <<>>)

MatchRecords == {M_gloss, M_verb, M_noun}

\* what the user types
MatchAnswers ==
    { <<>>, S_a, <<"B", "!">>, <<"a", " ", "!">>, <<"a", " ", "b">>, S_c, <<"a", "b">>, S_z,
      S_der,
      S_der \o <<" ", "a", "b">>,
      S_die \o <<" ", "a", "b">>,
      S_der \o <<" ", "a", "c">>,
      S_der \o <<" ", "a", "c", " ", "a", "b">>,
      S_der \o <<" ", "a", "b", " ", "c">>,
      S_die \o <<" ", "a", "c", " ", "a", "b">> }

\* the scores jaro_winkler gives two strings that differ: around the threshold
SimScores == {SIMILARITY_THRESHOLD - 1, SIMILARITY_THRESHOLD, SIMILARITY_THRESHOLD + 1}

\* the strings an answer to the record is scored against
Scored(translation) ==
    {expected_variants(translation)[i] : i \in DOMAIN expected_variants(translation)}
      \cup {correct_variants(translation)[i] : i \in DOMAIN correct_variants(translation)}
      \cup {expected_noun(translation), normalize(translation.translation)}

\* calc of the matcher
MatchCalc(answer, translation, russian, sim, stage, ret) ==
    [fn |-> "check", answer |-> answer, translation |-> translation,
     expecting_russian |-> russian, sim |-> sim, stage |-> stage, ret |-> ret]

NoCheck == AnswerCheck("none", <<>>, 0, FALSE)

InitMatch ==
    /\ NoStore
    /\ \E translation \in MatchRecords, russian \in BOOLEAN :
         \E sim \in [Scored(translation) -> SimScores] :
           calc = MatchCalc(<<>>, translation, russian, sim, "asked", NoCheck)

\* handle_message: a text arrives while the chat practices
AnswerTyped(answer) ==
    /\ calc.fn = "check"
    /\ calc.stage = "asked"
    /\ calc' = [calc EXCEPT !.answer = answer, !.stage = "typed"]
    /\ CalcStep

\* check_practice_answer, line 380: the answer is graded
CheckAnswer ==
    /\ calc.fn = "check"
    /\ calc.stage = "typed"
    /\ calc' = [calc EXCEPT !.stage = "checked",
                            !.ret = check_answer(calc.answer, calc.translation,
                                                 calc.expecting_russian, calc.sim)]
    /\ CalcStep

NextMatch ==
    \/ \E answer \in MatchAnswers : AnswerTyped(answer)
    \/ CheckAnswer

SpecMatch == InitMatch /\ [][NextMatch]_vars

(***************************************************************************)
(* The response parser (parse_translation_response).  The response is a    *)
(* text with "\n" between its lines.  A Cyrillic letter is written by its  *)
(* name: "ya" is the character U+044F.                                     *)
(***************************************************************************)
S_ya == <<"ya">>

\* matches!(c, '\u{0400}'..='\u{04FF}' | '\u{0500}'..='\u{052F}')
is_cyrillic(c) == c = "ya"

\* str::lines: the segments between the line feeds, without a final empty
\* segment and without the carriage return that ends a line
strip_cr(line) ==
    IF line # <<>> /\ line[Len(line)] = "\r" THEN SubSeq(line, 1, Len(line) - 1) ELSE line

lines_of(text) ==
    LET segments == split(text, "\n")
        kept == IF segments[Len(segments)] = <<>>
                THEN SubSeq(segments, 1, Len(segments) - 1)
                ELSE segments
    IN Map(strip_cr, kept)

\* str::starts_with(char)
starts_with(s, c) == s # <<>> /\ Head(s) = c

\* str::contains(&str)
contains_str(s, pat) ==
    \E i \in 1..(Len(s) - Len(pat) + 1) : SubSeq(s, i, i + Len(pat) - 1) = pat

\* str::trim_start_matches(char)
RECURSIVE trim_start_matches(_, _)
trim_start_matches(s, c) ==
    IF starts_with(s, c) THEN trim_start_matches(Tail(s), c) ELSE s

\* [&str]::join(sep)
RECURSIVE join(_, _)
join(parts, sep) ==
    IF parts = <<>> THEN <<>>
    ELSE IF Len(parts) = 1 THEN parts[1]
    ELSE parts[1] \o sep \o join(Tail(parts), sep)

\* the pronoun markers of lines 318-323
PronounMarkers ==
    { <<"i", "c", "h", " ">>, <<"d", "u", " ">>, <<"e", "r", "/">>,
      <<"w", "i", "r", " ">>, <<"i", "h", "r", " ">>,
      <<"s", "i", "e", "/", "S", "i", "e">> }

has_pronoun(line) == \E m \in PronounMarkers : contains_str(line, m)

\* original.chars().any(is Cyrillic)
is_russian_input(original) == \E i \in DOMAIN original : is_cyrillic(original[i])

\* lines.first().unwrap_or(&original) and lines.get(1).unwrap_or(&"")
first_or(lines, original) == IF Len(lines) >= 1 THEN lines[1] ELSE original
second_or_empty(lines) == IF Len(lines) >= 2 THEN lines[2] ELSE <<>>

\* the first while loop (314-334): [forms, conjugations, in_section, at], at
\* being the line the loop stops at
RECURSIVE scan_forms(_, _, _, _, _)
scan_forms(lines, current_line, forms, conjugations, in_conjugation_section) ==
    IF ~(current_line <= Len(lines) /\ ~starts_with(trim(lines[current_line]), "1"))
    THEN [forms |-> forms, conjugations |-> conjugations, at |-> current_line]
    ELSE LET line == trim(lines[current_line])
         IN IF line = <<>>
            THEN scan_forms(lines, current_line + 1, forms, conjugations,
                            in_conjugation_section)
            ELSE IF has_pronoun(line)
            THEN scan_forms(lines, current_line + 1, forms,
                            Append(conjugations, line), TRUE)
            ELSE IF in_conjugation_section
            THEN scan_forms(lines, current_line + 1, forms,
                            Append(conjugations, line), in_conjugation_section)
            ELSE scan_forms(lines, current_line + 1, Append(forms, line),
                            conjugations, in_conjugation_section)

\* the body of the second while loop for a line that starts with 1 or 2
\* faulty variant: the sides are not swapped for a Russian query
example_of_unswapped(line, russian_input) ==
    LET parts == Map(trim, split(line, "-"))
        german == trim(trim_start_matches(trim_start_matches(parts[1], "1"), "2"))
        russian == trim(join(Tail(parts), <<"-">>))
    IN Example(german, russian)

\* faulty variant: the right side is the second segment alone
example_of_second_only(line, russian_input) ==
    LET parts == Map(trim, split(line, "-"))
        german == trim(trim_start_matches(trim_start_matches(parts[1], "1"), "2"))
        russian == IF Len(parts) >= 2 THEN parts[2] ELSE <<>>
    IN IF russian_input THEN Example(russian, german) ELSE Example(german, russian)

example_of(line, russian_input) ==
    LET parts == Map(trim, split(line, "-"))
        german == trim(trim_start_matches(trim_start_matches(parts[1], "1"), "2"))
        russian == trim(join(Tail(parts), <<"-">>))
    IN IF russian_input THEN Example(russian, german) ELSE Example(german, russian)

\* the second while loop (340-363)
RECURSIVE scan_examples(_, _, _)
scan_examples(lines, current_line, russian_input) ==
    IF current_line > Len(lines) THEN <<>>
    ELSE LET line == trim(lines[current_line])
             rest == scan_examples(lines, current_line + 1, russian_input)
         IN IF starts_with(line, "1") \/ starts_with(line, "2")
            THEN <<example_of(line, russian_input)>> \o rest
            ELSE rest

\* the post-processing at 366-372, given the record built so far
collapse_article(translation, russian_input) ==
    LET words == split_whitespace(translation.original)
    IN IF ~russian_input /\ Len(words) = 2 /\ words[1] \in ARTICLES
       THEN [translation EXCEPT !.grammar_forms = Append(@, words[1]),
                                !.original = words[2]]
       ELSE translation

\* the record of lines 287-307
\* faulty variant: the first line is the original in both directions
headword_lines_unswapped(original, lines) ==
    FullTranslation(trim(first_or(lines, original)), trim(second_or_empty(lines)),
                    <<>>, NoLines, <<>>)

headword_lines(original, lines) ==
    IF is_russian_input(original)
    THEN FullTranslation(trim(second_or_empty(lines)), trim(first_or(lines, original)),
                         <<>>, NoLines, <<>>)
    ELSE FullTranslation(trim(first_or(lines, original)), trim(second_or_empty(lines)),
                         <<>>, NoLines, <<>>)

\* the test !conjugations.is_empty() at 336-338
\* faulty variant: Some as soon as the scan ran
conjugations_of_always_some(conjugations) == SomeLines(conjugations)

conjugations_of(conjugations) ==
    IF conjugations # <<>> THEN SomeLines(conjugations) ELSE NoLines

\* parse_translation_response from line 287 on, lines being response.lines();
\* the scan is evaluated once
parse_lines(original, lines) ==
    LET russian_input == is_russian_input(original)
        head == headword_lines(original, lines)
    IN IF Len(lines) > 2
       THEN CHOOSE translation \in
              { collapse_article(
                  [head EXCEPT !.grammar_forms = scan.forms,
                               !.conjugations = conjugations_of(scan.conjugations),
                               !.examples = scan_examples(lines, scan.at, russian_input)],
                  russian_input) :
                scan \in {scan_forms(lines, 3, <<>>, <<>>, FALSE)} } : TRUE
       ELSE collapse_article(head, russian_input)

\* parse_translation_response
parse_translation_response(original, response) ==
    CHOOSE translation \in {parse_lines(original, lines) : lines \in {lines_of(response)}} :
      TRUE

(***************************************************************************)
(* The response parser: the calls.  A word is looked up, the tutor's       *)
(* response arrives, parse_translation_response builds the record.  The    *)
(* tutor's text follows no schema: it is any sequence of up to two         *)
(* headword lines, up to MaxBody further lines and up to MaxTail           *)
(* enumerated lines.                                                       *)
(***************************************************************************)
\* most lines between the headword lines and the enumerated lines
MaxBody == 3
\* most enumerated lines
MaxTail == 1

\* the words users look up: a Russian word, a German word, a German noun with
\* its article, a word with a space before it
ParseQueries == {S_ya, S_z, S_der \o <<" ", "z">>, <<" ", "z">>}

HeadLines == {S_z, S_der \o <<" ", "z">>, S_ya}
BodyLines == {S_der, <<"z", "b">>, <<"d", "u", " ", "b">>, <<" ">>}
TailLines ==
    { <<"1", ".", " ", "a", " ", "-", " ", "ya">>,
      <<"1", ".", " ", "ya", " ", "-", " ", "a">>,
      <<"2", ".", " ", "b", " ", "-", " ", "ya">>,
      <<"1", ".", " ", "a", " ", "-", " ", "b", " ", "-", " ", "ya">> }

\* the sequences over lines of at most n elements
RECURSIVE UpTo(_, _)
UpTo(lines, n) ==
    IF n = 0 THEN {<<>>}
    ELSE UpTo(lines, n - 1)
           \cup {Append(s, l) : s \in {x \in UpTo(lines, n - 1) : Len(x) = n - 1}, l \in lines}

Responses ==
    {join(h \o b \o t, <<"\n">>) :
       h \in UpTo(HeadLines, 2), b \in UpTo(BodyLines, MaxBody), t \in UpTo(TailLines, MaxTail)}

\* calc of the parser
ParseCalc(original, response, stage, ret) ==
    [fn |-> "parse", original |-> original, response |-> response,
     stage |-> stage, ret |-> ret]

NoParse == FullTranslation(<<>>, <<>>, <<>>, NoLines, <<>>)

InitParse ==
    /\ NoStore
    /\ \E original \in ParseQueries : calc = ParseCalc(original, <<>>, "asked", NoParse)

\* translate_text returns the tutor's text
ResponseArrives ==
    /\ calc.fn = "parse"
    /\ calc.stage = "asked"
    /\ \E response \in Responses :
         calc' = [calc EXCEPT !.response = response, !.stage = "received"]
    /\ CalcStep

\* handle_message: the response is parsed into a record
ParseResponse ==
    /\ calc.fn = "parse"
    /\ calc.stage = "received"
    /\ calc' = [calc EXCEPT !.stage = "parsed",
                            !.ret = parse_translation_response(calc.original, calc.response)]
    /\ CalcStep

NextParse ==
    \/ ResponseArrives
    \/ ParseResponse

SpecParse == InitParse /\ [][NextParse]_vars

(***************************************************************************)
(* The tutor request with its retries (make_claude_request).  A reply is   *)
(* what one request ends in; the request itself and the sleep are awaited, *)
(* so each is a step of its own.  Durations are in milliseconds.           *)
(***************************************************************************)
\* const MAX_RETRIES, INITIAL_BACKOFF_MS, MAX_BACKOFF_MS
MAX_RETRIES == 5
INITIAL_BACKOFF_MS == 1000
MAX_BACKOFF_MS == 32000

\* rand::random::<u64>() % 1000: the least, a middle and the greatest value
Jitters == {0, 500, 999}

\* what a request ends in: a success status whose body is a ClaudeResponse, a
\* success status whose body is not, a 5xx status, any other status, or no
\* status at all (send fails)
Replies == {"success", "undecodable", "server_error", "other_status", "send_error"}

\* std::cmp::min
min(a, b) == IF a <= b THEN a ELSE b

\* std::cmp::min(backoff_ms + jitter, MAX_BACKOFF_MS)
sleep_duration(backoff_ms, jitter) == min(backoff_ms + jitter, MAX_BACKOFF_MS)

\* the test current_retry >= MAX_RETRIES
\* faulty variant: one more retry is allowed
retries_exhausted_late(current_retry) == current_retry > MAX_RETRIES

retries_exhausted(current_retry) == current_retry >= MAX_RETRIES

\* calc of the request: pc is the await the function is at, replies the replies
\* so far, sleeps the sleeps so far with the backoff_ms each was computed from
RequestCalc(key, pc, current_retry, backoff_ms, replies, sleeps, ret) ==
    [fn |-> "request", key |-> key, pc |-> pc, current_retry |-> current_retry,
     backoff_ms |-> backoff_ms, replies |-> replies, sleeps |-> sleeps, ret |-> ret]

\* the function is called; ANTHROPIC_API_KEY is set or not
InitRequest ==
    /\ file = File("absent", <<>>)
    /\ last = NoCall
    /\ proc = [p \in Procs |-> Idle]
    /\ sentences = <<>>
    /\ sessions = [c \in Chats |-> NoSession]
    /\ out = NoOut
    /\ task = [t \in Tasks |-> IdleTask]
    /\ holder = 0
    /\ locks = NoLocks
    /\ \E key \in BOOLEAN :
         calc = RequestCalc(key, "start", 0, INITIAL_BACKOFF_MS, <<>>, <<>>, "none")

RequestStep ==
    UNCHANGED <<file, last, proc, sentences, sessions, out, task, holder, locks>>

\* std::env::var("ANTHROPIC_API_KEY")? and the two counters
RequestStarts ==
    /\ calc.fn = "request"
    /\ calc.pc = "start"
    /\ calc' = IF calc.key
               THEN [calc EXCEPT !.pc = "send"]
               ELSE [calc EXCEPT !.pc = "done", !.ret = "Err(VarError)"]
    /\ RequestStep

\* client.post(..).send().await and what follows up to the next await or return
ReplyArrives(reply) ==
    /\ calc.fn = "request"
    /\ calc.pc = "send"
    /\ \E replied \in {[calc EXCEPT !.replies = Append(@, reply)]} :
         CASE reply = "send_error" ->
                calc' = [replied EXCEPT !.pc = "done", !.ret = "Err(send)"]
           [] reply = "success" ->
                calc' = [replied EXCEPT !.pc = "done", !.ret = "Ok(response)"]
           [] reply = "undecodable" ->
                calc' = [replied EXCEPT !.pc = "done", !.ret = "Err(json)"]
           [] reply = "server_error" ->
                IF retries_exhausted(calc.current_retry)
                THEN calc' = [replied EXCEPT !.pc = "done", !.ret = "Err(max retries)"]
                ELSE \E jitter \in Jitters :
                       calc' = [replied EXCEPT
                                  !.pc = "sleep",
                                  !.sleeps = Append(@, [backoff_ms |-> calc.backoff_ms,
                                                        duration |->
                                                          sleep_duration(calc.backoff_ms,
                                                                         jitter)])]
           [] OTHER ->
                calc' = [replied EXCEPT !.pc = "done", !.ret = "Err(status)"]
    /\ RequestStep

\* tokio::time::sleep(..).await is over; current_retry += 1; backoff_ms *= 2
SleepEnds ==
    /\ calc.fn = "request"
    /\ calc.pc = "sleep"
    /\ calc' = [calc EXCEPT !.pc = "send", !.current_retry = @ + 1, !.backoff_ms = @ * 2]
    /\ RequestStep

NextRequest ==
    \/ RequestStarts
    \/ \E reply \in Replies : ReplyArrives(reply)
    \/ SleepEnds

\* every request is answered or fails, and every sleep ends
SpecRequest == InitRequest /\ [][NextRequest]_vars /\ WF_vars(NextRequest)

(***************************************************************************)
(* Vocabulary of the properties, written from the contract of the store.   *)
(***************************************************************************)
\* the file can be read: it holds a collection or does not exist yet
Readable(f) == f.state \in {"ok", "absent"}

\* the persisted collection
Collection(f) == IF f.state \in {"ok", "unreadable"} THEN f.recs ELSE <<>>

Range(seq) == {seq[i] : i \in DOMAIN seq}

Blank(s) == \A i \in DOMAIN s : s[i] = " "

\* the record invariants: headword, translation and both sides of every example
WellFormed(r) ==
    /\ ~Blank(r.original)
    /\ ~Blank(r.translation)
    /\ \A i \in DOMAIN r.examples :
         ~Blank(r.examples[i].german) /\ ~Blank(r.examples[i].russian)

SameText(x, y) == to_lowercase(x) = to_lowercase(y)

\* r is stored under key k
KeyOf(k, r) == SameText(r.original, k) \/ SameText(r.translation, k)

\* positions of the records stored under key k
KeyHits(k, recs) == {i \in DOMAIN recs : KeyOf(k, recs[i])}

\* x and r are entries for the same headword or the same translation
SameEntry(x, r) == SameText(x.original, r.original) \/ SameText(x.translation, r.translation)

RECURSIVE WithoutEntry(_, _)
WithoutEntry(recs, r) ==
    IF recs = <<>> THEN <<>>
    ELSE IF SameEntry(Head(recs), r) THEN WithoutEntry(Tail(recs), r)
    ELSE <<Head(recs)>> \o WithoutEntry(Tail(recs), r)

RECURSIVE WithoutKey(_, _)
WithoutKey(recs, k) ==
    IF recs = <<>> THEN <<>>
    ELSE IF KeyOf(k, Head(recs)) THEN WithoutKey(Tail(recs), k)
    ELSE <<Head(recs)>> \o WithoutKey(Tail(recs), k)

Answers(r) == r.correct_answers + r.wrong_answers

(***************************************************************************)
(* Properties of the store.                                                *)
(***************************************************************************)
\* C2: in every reachable store, no key (case-insensitive, on original or on
\* translation) is the key of more than one stored record.
C2_OneRecordPerKey ==
    file.state = "ok" => \A k \in Words : Cardinality(KeyHits(k, file.recs)) <= 1

C4_AddTwiceIdempotent ==
    [][(last'.op = "add" /\ last'.rep)
         => /\ file' = file
            /\ Cardinality({i \in DOMAIN file'.recs : SameEntry(file'.recs[i], last'.rec)}) = 1]_vars

C4_Witness ==
    /\ last.op = "add"
    /\ last.rep
    /\ file.state = "ok"
    /\ Len(file.recs) = 2

\* C5: add_translation of a record that breaks the record invariants returns an
\* error and leaves the persisted collection as it was.
C5_InvalidAddRejected ==
    [][(last'.op = "add" /\ ~WellFormed(last'.rec))
         => /\ ~last'.ret.ok
            /\ Collection(file') = Collection(file)
            /\ (file'.state = file.state \/ file.state = "absent")]_vars

C5_Witness ==
    /\ last.op = "add"
    /\ ~last.ret.ok
    /\ last.rec.examples # <<>>
    /\ ~WellFormed(last.rec)
    /\ file.state = "ok"
    /\ file.recs # <<>>

\* C6: import_translations is all-or-nothing: a payload with an invalid record
\* is an error and changes nothing; any other payload becomes the collection
\* and its length is returned.
C6_ImportAllOrNothing ==
    [][last'.op = "import"
         => LET p == last'.json
            IN IF p.parsed /\ \A i \in DOMAIN p.recs : WellFormed(p.recs[i])
               THEN /\ last'.ret = OkCount(Len(p.recs))
                    /\ Collection(file') = p.recs
               ELSE /\ ~last'.ret.ok
                    /\ file' = file]_vars

C6_Witness ==
    /\ last.op = "import"
    /\ ~last.ret.ok
    /\ last.json.parsed
    /\ Len(last.json.recs) = 2
    /\ WellFormed(last.json.recs[1])
    /\ file.state = "ok"
    /\ file.recs # <<>>

C9_ReadFailsOnBadFile ==
    [][/\ (file.state = "absent" /\ last'.op = "read")
            => (last'.ret = OkRecs(<<>>) /\ file' = File("ok", <<>>))
       /\ (file.state \in {"malformed", "unreadable"}
             /\ last'.op \in {"read", "lookup", "add", "stats", "delete"})
            => (~last'.ret.ok /\ file' = file)]_vars

\* C10 as stated: no call other than update_translation_stats changes the
\* counters that find_translation reports for a key that stays findable.
C10_CountersOnlyByPractice ==
    [][last'.op # "stats"
         => \A k \in Words :
              LET a == find_translation(k, Collection(file))
                  b == find_translation(k, Collection(file'))
              IN (a # None /\ b # None)
                   => /\ a.correct_answers = b.correct_answers
                      /\ a.wrong_answers = b.wrong_answers]_vars

\* C10 amended: add_translation, delete_translation and the reading calls never
\* change a record they keep: every record of the new collection is a record of
\* the old one, counters included, or the record add_translation was given.
C10_KeptRecordsKeepCounters ==
    [][last'.op \in {"add", "delete", "lookup", "read", "clear"}
         => LET old == Collection(file)
                new == Collection(file')
            IN \A j \in DOMAIN new :
                 \/ new[j] \in Range(old)
                 \/ /\ last'.op = "add"
                    /\ j = Len(new)
                    /\ new[j] = last'.rec]_vars

C10_Witness ==
    /\ last.op = "add"
    /\ last.ret.ok
    /\ file.state = "ok"
    /\ Len(file.recs) = 2
    /\ Answers(file.recs[1]) = MaxCount
    /\ Answers(file.recs[2]) = 0

(***************************************************************************)
(* Properties of concurrent store calls.                                   *)
(***************************************************************************)
\* the file after the store call r has run alone on f
Alone(r, f) ==
    CASE r.op = "add" -> add_translation(r.rec, f).file
      [] r.op = "stats" -> update_translation_stats(r.word, r.correct, f).file
      [] OTHER -> delete_translation(r.word, f).file

\* C1: two store mutations executed concurrently behave as if their read+write
\* pairs excluded each other: the final collection is that of one call run after
\* the other, so neither change is dropped.
C1_NoLostMutation ==
    (\A p \in Procs : proc[p].pc = "done")
      => \/ file = Alone(proc[2], Alone(proc[1], RaceFile))
         \/ file = Alone(proc[1], Alone(proc[2], RaceFile))

(***************************************************************************)
(* Vocabulary of the session properties.                                   *)
(***************************************************************************)
\* the chat has a session (state Active)
Active(tbl, c) == tbl[c].present

\* the item a session asks for, with its direction
SameItem(a, b) ==
    /\ a.practice_type = b.practice_type
    /\ a.current_word = b.current_word
    /\ a.current_sentence = b.current_sentence
    /\ a.expecting_russian = b.expecting_russian

ZeroCounters(x) == x.words_practiced = 0 /\ x.correct_answers = 0 /\ x.wrong_answers = 0

\* x asks for a record of the collection recs
AsksWord(x, recs) ==
    /\ x.practice_type = WordTranslation
    /\ x.current_word \in Range(recs)
    /\ x.current_sentence = <<>>

\* x asks for one of the practice sentences
AsksSentence(x, sents) ==
    /\ x.practice_type = SentenceCompletion
    /\ x.current_word = Translation(<<>>, <<>>, <<>>, 0, 0)
    /\ Len(x.current_sentence) = 1
    /\ x.current_sentence[1] \in Range(sents)

(***************************************************************************)
(* Properties of the practice sessions.                                    *)
(***************************************************************************)
\* C12 as stated: in a word-translation session an answer graded Correct puts a
\* freshly drawn record and direction into the session and emits the next
\* question; any other grade leaves current_word and expecting_russian alone.
C12_CorrectAdvancesToWord ==
    [][(out'.op = "answer" /\ Active(sessions, out'.chat)
          /\ sessions[out'.chat].practice_type = WordTranslation)
         => LET old == sessions[out'.chat]
                new == sessions'[out'.chat]
            IN IF out'.result = Correct
               THEN /\ Active(sessions', out'.chat)
                    /\ AsksWord(new, Collection(file'))
                    /\ out'.question
                    /\ out'.delivered = 2
               ELSE /\ new.current_word = old.current_word
                    /\ new.expecting_russian = old.expecting_russian]_vars

\* C12 amended: any grade but Correct leaves item, direction and practice type
\* alone.  A Correct answer either advances or leaves them alone; it advances,
\* with the next question sent, whenever the request returns Ok and both the
\* store and the practice sentences are non-empty.  Advancing puts in a record
\* of the store with a drawn direction, or a practice sentence with the default
\* record as current_word and the direction kept.
C12_AdvanceOnlyOnCorrect ==
    [][(out'.op = "answer" /\ Active(sessions, out'.chat)
          /\ sessions[out'.chat].practice_type = WordTranslation)
         => LET old == sessions[out'.chat]
                new == sessions'[out'.chat]
                kept == Active(sessions', out'.chat) /\ SameItem(new, old)
                advanced ==
                    /\ Active(sessions', out'.chat)
                    /\ out'.question
                    /\ out'.delivered = 2
                    /\ \/ AsksWord(new, Collection(file'))
                       \/ /\ AsksSentence(new, sentences)
                          /\ new.expecting_russian = old.expecting_russian
            IN IF out'.result # Correct THEN kept
               ELSE /\ advanced \/ kept
                    /\ ~out'.ok => kept
                    /\ (out'.ok /\ Collection(file') # <<>> /\ sentences # <<>>) => advanced]_vars

C12_Witness ==
    /\ out.op = "answer"
    /\ out.stats
    /\ out.result = Correct
    /\ out.question
    /\ out.ok
    /\ Active(sessions, out.chat)
    /\ sessions[out.chat].practice_type = SentenceCompletion
    /\ sessions[out.chat].expecting_russian

C14_StartActivatesFromStore ==
    [][(out'.op = "start" /\ Readable(file) /\ Collection(file) # <<>>)
         => /\ Active(sessions', out'.chat)
            /\ sessions'[out'.chat].current_word \in Range(Collection(file))
            /\ ZeroCounters(sessions'[out'.chat])]_vars

\* C14 amended: whenever the store and the practice sentences are both non-empty,
\* start_practice_session leaves the chat with a session whose three counters
\* are 0 and which asks either for a record of the store or for a practice
\* sentence (then current_word is the default record and the direction false).
C14_StartActivates ==
    [][(out'.op = "start" /\ Readable(file) /\ Collection(file) # <<>> /\ sentences # <<>>)
         => LET new == sessions'[out'.chat]
            IN /\ Active(sessions', out'.chat)
               /\ ZeroCounters(new)
               /\ \/ AsksWord(new, Collection(file))
                  \/ AsksSentence(new, sentences) /\ ~new.expecting_russian]_vars

C14_Witness ==
    /\ out.op = "start"
    /\ out.feedback = "started"
    /\ ~out.ok
    /\ Active(sessions, out.chat)
    /\ sessions[out.chat].practice_type = SentenceCompletion
    /\ Len(file.recs) = 2

\* C15: every answer check_practice_answer handles for a chat with a session is
\* recorded in the stored session: words_practiced grows by 1, and so does
\* correct_answers (grade Correct) or wrong_answers (any other grade), the other
\* counter standing still.  Stated of the requests that return Ok; of those that
\* end in an error C20 asks the opposite.
C15_AnswerCounted ==
    [][(out'.op = "answer" /\ Active(sessions, out'.chat) /\ out'.ok)
         => LET old == sessions[out'.chat]
                new == sessions'[out'.chat]
                right == IF out'.result = Correct THEN 1 ELSE 0
            IN /\ Active(sessions', out'.chat)
               /\ new.words_practiced = old.words_practiced + 1
               /\ new.correct_answers = old.correct_answers + right
               /\ new.wrong_answers = old.wrong_answers + (1 - right)]_vars

\* C16 as stated: the word handed to update_translation_stats after a
\* word-translation answer is the current item's translation when
\* expecting_russian is true and its original otherwise.
C16_StatsKeyAnswerSide ==
    [][(out'.op = "answer" /\ Active(sessions, out'.chat)
          /\ sessions[out'.chat].practice_type = WordTranslation)
         => LET old == sessions[out'.chat]
            IN /\ out'.stats
               /\ out'.key = IF old.expecting_russian
                              THEN old.current_word.translation
                              ELSE old.current_word.original]_vars

\* C16 amended: the word handed to update_translation_stats is the field the
\* question showed: the current item's original when expecting_russian is true
\* and its translation otherwise.
C16_StatsKeyPromptSide ==
    [][(out'.op = "answer" /\ Active(sessions, out'.chat)
          /\ sessions[out'.chat].practice_type = WordTranslation)
         => LET old == sessions[out'.chat]
            IN /\ out'.stats
               /\ out'.key = IF old.expecting_russian
                              THEN old.current_word.original
                              ELSE old.current_word.translation]_vars

C16_Witness ==
    /\ out.op = "answer"
    /\ out.stats
    /\ out.result = Wrong
    /\ out.ok
    /\ Active(sessions, out.chat)
    /\ sessions[out.chat].expecting_russian
    /\ out.key = sessions[out.chat].current_word.original
    /\ out.key # sessions[out.chat].current_word.translation
    /\ file.state = "ok"
    /\ Len(file.recs) = 2
    /\ file.recs[2] = sessions[out.chat].current_word
    /\ Answers(file.recs[1]) = 0

C18_StopLeavesNoSession ==
    [][out'.op = "stop" => ~Active(sessions', out'.chat)]_vars

\* C19 as stated: the text of stop_practice_session carries the final summary if
\* and only if the chat had a session with at least one attempt.
C19_SummaryIffAttempts ==
    [][out'.op = "stop"
         => (out'.summary = (/\ Active(sessions, out'.chat)
                             /\ sessions[out'.chat].words_practiced > 0))]_vars

\* C19 amended: the text of stop_practice_session carries the final summary if
\* and only if the chat had a session, also one without attempts, and the
\* summary shows the attempts of that session.
C19_SummaryIffSession ==
    [][out'.op = "stop"
         => /\ out'.summary = Active(sessions, out'.chat)
            /\ out'.attempts = IF Active(sessions, out'.chat)
                                THEN sessions[out'.chat].words_practiced ELSE 0]_vars

C19_Witness ==
    /\ out.op = "stop"
    /\ out.summary
    /\ out.attempts = 0
    /\ out.ok
    /\ ~Active(sessions, out.chat)

\* C20: when update_translation_stats or read_translations fails while an answer
\* is handled, the request ends with an error and the session table is what it
\* was before the request.
C20_FailureKeepsSession ==
    [][(out'.op = "answer" /\ out'.io)
         => /\ ~out'.ok
            /\ sessions' = sessions]_vars

C20_Witness ==
    /\ out.op = "answer"
    /\ out.io
    /\ out.feedback = "graded"
    /\ file.state = "malformed"
    /\ Active(sessions, out.chat)
    /\ sessions[out.chat].words_practiced > 0

(***************************************************************************)
(* Properties of concurrent answers.                                       *)
(***************************************************************************)
\* C11: two answers of one chat handled concurrently are applied one after the
\* other, each on the session the other left: once both handlers have returned
\* Ok, words_practiced of the stored session has grown by 2 since /practice.
C11_BothAnswersCounted ==
    (\A t \in Tasks : task[t].pc = "done" /\ task[t].ok)
      => \A c \in Chats : /\ sessions[c].present
                          /\ sessions[c].words_practiced = 2

(***************************************************************************)
(* Properties of the sampler.                                              *)
(***************************************************************************)
\* the call of the sampler has returned or aborted
Sampling == calc.fn = "sample" /\ calc.called

\* C21: get_weighted_translation returns None if and only if the collection is
\* empty, and for a collection that is not empty and any draw it returns one of
\* the records of the collection.
C21_SampleReturnsElement ==
    Sampling =>
      /\ ~calc.ret.panic
      /\ calc.ret.some <=> calc.records # <<>>
      /\ calc.ret.some => calc.ret.value \in Range(calc.records)

\* the weight the contract gives a record, from its two counters
ContractWeight(r) ==
    IF Answers(r) = 0 THEN Fraction(2, 1)
    ELSE Fraction(Answers(r) + r.wrong_answers, Answers(r))

SameFraction(x, y) == x.num * y.den = y.num * x.den

\* 1 <= x <= 2
OneToTwo(x) == x.den <= x.num /\ x.num <= 2 * x.den

\* C22: the weight of a record is 2 when correct_answers + wrong_answers = 0
\* and 1 + wrong_answers / (correct_answers + wrong_answers) otherwise, computed
\* from the counters the collection has at the call, so every weight lies in
\* [1, 2].
C22_WeightFromCounters ==
    (Sampling /\ ~calc.ret.panic) =>
      \A i \in DOMAIN calc.ret.weights :
        /\ SameFraction(calc.ret.weights[i], ContractWeight(calc.records[i]))
        /\ OneToTwo(calc.ret.weights[i])

(***************************************************************************)
(* Properties of the answer matcher.  The answer of a property is the text *)
(* check_answer hands to the function it selects: the typed text after     *)
(* normalization.                                                          *)
(***************************************************************************)
\* check_answer has returned
Checked == calc.fn = "check" /\ calc.stage = "checked"

\* the normalized answer
Given == normalize(calc.answer)

\* the whitespace-separated tokens of the answer
Tokens == split_whitespace(Given)

\* the question asks for the translation-language side
Reverse == calc.expecting_russian

\* the question asks for the original of a noun / of another word
ForwardNoun == ~calc.expecting_russian /\ is_noun(calc.translation)
ForwardWord == ~calc.expecting_russian /\ ~is_noun(calc.translation)

\* the normalized comma-separated segments of the translation and the
\* normalized Russian sides of the examples
Glosses(r) ==
    {normalize(g) : g \in Range(split(r.translation, ","))}
      \cup {normalize(r.examples[i].russian) : i \in DOMAIN r.examples}

\* the accepted answers of the reverse direction
AcceptedReverse(r) == {normalize(r.translation)} \cup Glosses(r)

\* the accepted answers of the forward direction for a record that is no noun
AcceptedForward(r) ==
    {normalize(r.original)}
      \cup (IF r.conjugations.some
            THEN {normalize(w[Len(w)]) :
                    w \in {split_whitespace(l) : l \in Range(r.conjugations.lines)} \ {<<>>}}
            ELSE {})
      \cup UNION {{normalize(w) : w \in Range(split_whitespace(r.examples[i].german))} :
                    i \in DOMAIN r.examples}

\* the largest score of the answer against a set of variants, 0 for no variant
MaxScore(variants) ==
    IF variants = {} THEN 0
    ELSE LET scores == {jaro_winkler(Given, v, calc.sim) : v \in variants}
         IN CHOOSE m \in scores : \A n \in scores : n <= m

\* C23: in the reverse direction check_answer returns Correct whenever the
\* normalized answer equals the normalized whole translation, a normalized
\* comma-separated segment of it, or the normalized Russian side of an example,
\* whatever the similarity scores are.
C23_ExactReverseIsCorrect ==
    (Checked /\ Reverse /\ Given \in AcceptedReverse(calc.translation))
      => calc.ret.result = Correct

\* a segment of a translation with two glosses is answered, and every score the
\* similarity would give is at or below the threshold
C23_Witness ==
    /\ Checked /\ Reverse
    /\ Given \in Glosses(calc.translation)
    /\ Given # normalize(calc.translation.translation)
    /\ \A v \in Scored(calc.translation) : calc.sim[v] <= SIMILARITY_THRESHOLD
    /\ calc.ret.result = Correct

\* the grade of an answer that is no exact match, from the best score
GradedBy(best) ==
    IF best > SIMILARITY_THRESHOLD
    THEN calc.ret.result = AlmostCorrect
    ELSE calc.ret.result = Wrong

\* C24 as stated: in the reverse direction and in the forward direction for a
\* record that is no noun, an answer that is no exact match is AlmostCorrect if
\* its largest similarity over the accepted variants is above 0.85 and Wrong
\* otherwise (Wrong at exactly 0.85); the accepted variants of the reverse
\* direction are the whole translation, its segments and the examples.
C24_BestOverAccepted ==
    /\ (Checked /\ Reverse /\ Given \notin AcceptedReverse(calc.translation))
         => GradedBy(MaxScore(AcceptedReverse(calc.translation)))
    /\ (Checked /\ ForwardWord /\ Given \notin AcceptedForward(calc.translation))
         => GradedBy(MaxScore(AcceptedForward(calc.translation)))

\* C24 amended: as above, but in the reverse direction the similarity is taken
\* over the segments of the translation and the examples only, not over the
\* whole translation.
C24_BestOverScoredVariants ==
    /\ (Checked /\ Reverse /\ Given \notin AcceptedReverse(calc.translation))
         => GradedBy(MaxScore(Glosses(calc.translation)))
    /\ (Checked /\ ForwardWord /\ Given \notin AcceptedForward(calc.translation))
         => GradedBy(MaxScore(AcceptedForward(calc.translation)))

\* the best score of an answer that is no exact match is exactly the threshold,
\* and the answer is graded Wrong
C24_Witness ==
    /\ Checked /\ Reverse
    /\ Given \notin AcceptedReverse(calc.translation)
    /\ MaxScore(Glosses(calc.translation)) = SIMILARITY_THRESHOLD
    /\ calc.ret.result = Wrong

\* the text "<article> <noun>" of a noun record
ArticleAndNoun(r) ==
    to_lowercase(trim(r.grammar_forms[1])) \o <<" ">> \o normalize(r.original)

\* C25: in the forward direction for a noun, an answer of fewer than two tokens
\* is Wrong with expected "<article> <noun>", and an answer of two tokens or
\* more whose first token is not the article of the record, compared without
\* regard to case, is WrongArticle with the same expected text.
C25_ArticleRequired ==
    (Checked /\ ForwardNoun) =>
      /\ Len(Tokens) < 2 =>
           /\ calc.ret.result = Wrong
           /\ calc.ret.expected = ArticleAndNoun(calc.translation)
      /\ (Len(Tokens) >= 2
            /\ ~SameText(Tokens[1], trim(calc.translation.grammar_forms[1]))) =>
           /\ calc.ret.result = WrongArticle
           /\ calc.ret.expected = ArticleAndNoun(calc.translation)

\* a wrong article followed by two tokens, the last of them the noun
C25_Witness ==
    /\ Checked /\ ForwardNoun
    /\ Len(Tokens) = 3
    /\ Tokens[1] = S_die
    /\ Tokens[3] = normalize(calc.translation.original)
    /\ calc.ret.result = WrongArticle
    /\ calc.ret.expected = S_der \o <<" ", "a", "b">>

\* the tokens of the answer from position i on, joined by single spaces
RECURSIVE JoinFrom(_, _)
JoinFrom(tokens, i) ==
    IF i > Len(tokens) THEN <<>>
    ELSE IF i = Len(tokens) THEN tokens[i]
    ELSE tokens[i] \o <<" ">> \o JoinFrom(tokens, i + 1)

\* the answer names the article of the noun record
ArticleGiven ==
    /\ Checked /\ ForwardNoun
    /\ Len(Tokens) >= 2
    /\ SameText(Tokens[1], trim(calc.translation.grammar_forms[1]))

\* C26 as stated: for a noun answered with the right article, the similarity is
\* taken between everything after the article and the normalized noun; the
\* answer is Correct when it is 0.85 or more and AlmostCorrect with that score
\* otherwise.
C26_NounByRemainingTokens ==
    ArticleGiven =>
      LET similarity == jaro_winkler(JoinFrom(Tokens, 2),
                                     normalize(calc.translation.original), calc.sim)
      IN IF similarity >= SIMILARITY_THRESHOLD
         THEN calc.ret.result = Correct
         ELSE calc.ret.result = AlmostCorrect /\ calc.ret.similarity = similarity

\* C26 amended: the similarity is taken between the second token of the answer
\* and the normalized noun, later tokens are ignored; the answer is Correct when
\* the similarity is above 0.85 and AlmostCorrect with that score otherwise
\* (AlmostCorrect at exactly 0.85).
C26_NounBySecondToken ==
    ArticleGiven =>
      LET similarity == jaro_winkler(Tokens[2], normalize(calc.translation.original),
                                     calc.sim)
      IN IF similarity > SIMILARITY_THRESHOLD
         THEN calc.ret.result = Correct
         ELSE calc.ret.result = AlmostCorrect /\ calc.ret.similarity = similarity

\* the right article, a second token that scores exactly the threshold, and the
\* noun itself as third token: AlmostCorrect with the score of the second token
C26_Witness ==
    /\ ArticleGiven
    /\ Len(Tokens) = 3
    /\ Tokens[3] = normalize(calc.translation.original)
    /\ calc.sim[normalize(calc.translation.original)] = SIMILARITY_THRESHOLD
    /\ calc.ret.result = AlmostCorrect
    /\ calc.ret.similarity = SIMILARITY_THRESHOLD

(***************************************************************************)
(* Properties of the response parser.                                      *)
(***************************************************************************)
\* parse_translation_response has returned
ParseDone == calc.fn = "parse" /\ calc.stage = "parsed"

\* the lines of the response
Lines == lines_of(calc.response)

\* the query has a Cyrillic character
Cyrillic(text) == \E i \in DOMAIN text : text[i] = "ya"

\* the line "1. <left> - <right>"
Enumerated(left, right) == <<"1", ".", " ">> \o left \o <<" ", "-", " ">> \o right

\* the sentences of the example lines
Sentences == {S_a, S_ya}

\* C27 as stated: for a Cyrillic query and the response  German headword /
\* Russian counterpart / article / "1. <German sentence> - <Russian sentence>"
\* the record has original = the German headword, translation = the Russian
\* counterpart, grammar_forms = [article] and the one example (German sentence,
\* Russian sentence).
C27_GermanFirstResponse ==
    \A article \in ARTICLES, g \in Sentences, r \in Sentences :
      (/\ ParseDone /\ Cyrillic(calc.original)
       /\ ~Cyrillic(g) /\ Cyrillic(r)
       /\ Lines = <<S_z, S_ya, article, Enumerated(g, r)>>)
        => /\ calc.ret.original = S_z
           /\ calc.ret.translation = S_ya
           /\ calc.ret.grammar_forms = <<article>>
           /\ calc.ret.examples = <<Example(g, r)>>

\* C27 amended: for a Cyrillic query and the response  Russian headword /
\* German counterpart / article / "1. <Russian sentence> - <German sentence>"
\* the record has original = the German counterpart (line 2), translation = the
\* Russian headword (line 1), grammar_forms = [article] and one example whose
\* german is the German sentence (the right side) and whose russian is the left
\* side without its digit: ". <Russian sentence>".
C27_RussianFirstResponse ==
    \A article \in ARTICLES, g \in Sentences, r \in Sentences :
      (/\ ParseDone /\ Cyrillic(calc.original)
       /\ ~Cyrillic(g) /\ Cyrillic(r)
       /\ Lines = <<S_ya, S_z, article, Enumerated(r, g)>>)
        => /\ calc.ret.original = S_z
           /\ calc.ret.translation = S_ya
           /\ calc.ret.grammar_forms = <<article>>
           /\ calc.ret.examples = <<Example(g, <<".", " ">> \o r)>>

\* the response of the amended claim has been parsed
C27_Witness ==
    /\ ParseDone /\ Cyrillic(calc.original)
    /\ Lines = <<S_ya, S_z, S_der, Enumerated(S_ya, S_a)>>
    /\ calc.ret.original = S_z
    /\ calc.ret.examples = <<Example(S_a, <<".", " ", "ya">>)>>

\* C28 as stated: the parser returns a record for every query and response;
\* without a first line the original is the query text, without a second line
\* the translation is empty, in both directions.
C28_FallbackToQuery ==
    ParseDone =>
      /\ Len(Lines) = 0 => calc.ret.original = calc.original
      /\ Len(Lines) < 2 => calc.ret.translation = <<>>

\* the headword after the article rule: the noun of "<article> <noun>"
Headword(text) ==
    LET words == split_whitespace(text)
    IN IF Len(words) = 2 /\ words[1] \in ARTICLES THEN words[2] ELSE trim(text)

\* C28 amended: the parser returns a record for every query and response.  For
\* a query without Cyrillic: without a first line the original is the trimmed
\* query, reduced to its noun when it is an article and a noun, and without a
\* second line the translation is empty.  For a Cyrillic query the fields are
\* swapped: without a first line the translation is the trimmed query, and
\* without a second line the original is empty.
C28_FallbackByDirection ==
    ParseDone =>
      IF Cyrillic(calc.original)
      THEN /\ Len(Lines) = 0 => calc.ret.translation = trim(calc.original)
           /\ Len(Lines) < 2 => calc.ret.original = <<>>
      ELSE /\ Len(Lines) = 0 => calc.ret.original = Headword(calc.original)
           /\ Len(Lines) < 2 => calc.ret.translation = <<>>

\* an empty response to a Russian word: the word is the translation
C28_Witness ==
    /\ ParseDone /\ Cyrillic(calc.original)
    /\ Lines = <<>>
    /\ calc.ret.translation = calc.original
    /\ calc.ret.original = <<>>

\* the first line of the response, or the query when there is none
Resolved == trim(IF Lines = <<>> THEN calc.original ELSE Lines[1])

\* C29: for a query without Cyrillic whose resolved original is an article and
\* one more token, the original becomes that token and the article is the first
\* grammar form, so the matcher takes the record for a noun, whatever grammar
\* lines the response has.
C29_ArticleFirstForm ==
    (/\ ParseDone /\ ~Cyrillic(calc.original)
     /\ Len(split_whitespace(Resolved)) = 2
     /\ split_whitespace(Resolved)[1] \in ARTICLES)
      => /\ calc.ret.original = split_whitespace(Resolved)[2]
         /\ calc.ret.grammar_forms # <<>>
         /\ calc.ret.grammar_forms[1] = split_whitespace(Resolved)[1]
         /\ is_noun(calc.ret)

\* the position of the first line from position i on that starts with "1"
\* once trimmed, Len + 1 when there is none
RECURSIVE FirstEnumerated(_, _)
FirstEnumerated(lines, i) ==
    IF i > Len(lines) THEN i
    ELSE IF trim(lines[i]) # <<>> /\ Head(trim(lines[i])) = "1" THEN i
    ELSE FirstEnumerated(lines, i + 1)

\* the lines the scan looks at: lines 3.. before the first enumerated line,
\* trimmed, the empty ones left out
Scanned ==
    IF Len(Lines) <= 2 THEN <<>>
    ELSE SelectSeq([i \in 1..(FirstEnumerated(Lines, 3) - 3) |-> trim(Lines[i + 2])],
                   LAMBDA l : l # <<>>)

\* the line has a pronoun marker
Marked(l) ==
    \E m \in PronounMarkers :
      \E i \in 1..(Len(l) - Len(m) + 1) : SubSeq(l, i, i + Len(m) - 1) = m

\* the position of the first marked line of seq, Len + 1 when there is none
FirstMarked(seq) ==
    IF \E i \in DOMAIN seq : Marked(seq[i])
    THEN CHOOSE i \in DOMAIN seq : Marked(seq[i]) /\ \A j \in 1..(i - 1) : ~Marked(seq[j])
    ELSE Len(seq) + 1

\* C30: of the scanned lines, those before the first pronoun line are the
\* grammar forms (followed at most by the article taken from the headword),
\* the first pronoun line and all the lines after it are the conjugations,
\* marked or not, and conjugations is Some exactly when it has a line.
C30_StickyConjugations ==
    ParseDone =>
      LET k == FirstMarked(Scanned)
      IN /\ SubSeq(calc.ret.grammar_forms, 1, k - 1) = SubSeq(Scanned, 1, k - 1)
         /\ Len(calc.ret.grammar_forms) \in {k - 1, k}
         /\ Len(calc.ret.grammar_forms) = k
              => calc.ret.grammar_forms[k] \in ARTICLES /\ ~Cyrillic(calc.original)
         /\ calc.ret.conjugations.lines = SubSeq(Scanned, k, Len(Scanned))
         /\ calc.ret.conjugations.some <=> k <= Len(Scanned)

\* a grammar form, a pronoun line and a line without a marker after it
C30_Witness ==
    /\ ParseDone
    /\ Len(Scanned) = 3
    /\ FirstMarked(Scanned) = 2
    /\ ~Marked(Scanned[3])
    /\ calc.ret.conjugations = SomeLines(<<Scanned[2], Scanned[3]>>)
    /\ calc.ret.grammar_forms = <<Scanned[1]>>

\* the example lines: the lines from the first enumerated line on that start
\* with "1" or "2" once trimmed
ExampleLines ==
    IF Len(Lines) <= 2 THEN <<>>
    ELSE SelectSeq([i \in 1..(Len(Lines) - FirstEnumerated(Lines, 3) + 1) |->
                      trim(Lines[FirstEnumerated(Lines, 3) + i - 1])],
                   LAMBDA l : l # <<>> /\ Head(l) \in {"1", "2"})

\* the hyphen-separated segments of a line, each trimmed
Segments(l) == [i \in DOMAIN split(l, "-") |-> trim(split(l, "-")[i])]

\* the sides of an example as the line has them, left and right
LeftSide(e) == IF Cyrillic(calc.original) THEN e.russian ELSE e.german
RightSide(e) == IF Cyrillic(calc.original) THEN e.german ELSE e.russian

\* s without the characters c it starts with
RECURSIVE StripLeading(_, _)
StripLeading(s, c) == IF s # <<>> /\ Head(s) = c THEN StripLeading(Tail(s), c) ELSE s

\* a first segment without the digits it starts with, the 1s and then the 2s,
\* and without the blanks around the rest
Undigited(s) == trim(StripLeading(StripLeading(s, "1"), "2"))

\* the segments rejoined with sep between them
RECURSIVE Rejoined(_, _)
Rejoined(segs, sep) ==
    IF segs = <<>> THEN <<>>
    ELSE IF Len(segs) = 1 THEN segs[1]
    ELSE segs[1] \o sep \o Rejoined(Tail(segs), sep)

\* C31 as stated: every example line gives one example, and for a line with
\* more than two hyphen-separated segments the right side is all the segments
\* after the first rejoined with " - ": the right side of "1. A - B - C" is
\* "B - C".
C31_RejoinedWithSpaces ==
    ParseDone =>
      /\ Len(calc.ret.examples) = Len(ExampleLines)
      /\ \A i \in DOMAIN ExampleLines :
           Len(Segments(ExampleLines[i])) > 2
             => RightSide(calc.ret.examples[i])
                  = Rejoined(Tail(Segments(ExampleLines[i])), <<" ", "-", " ">>)

\* C31 amended: every example line gives one example; its left side is the
\* first segment without its leading digits, and for a line with more than two
\* hyphen-separated segments the right side is all the trimmed segments after
\* the first rejoined with "-" alone, so no segment is lost but the blanks
\* around the inner hyphens are: the right side of "1. A - B - C" is "B-C".
C31_RejoinedWithHyphen ==
    ParseDone =>
      /\ Len(calc.ret.examples) = Len(ExampleLines)
      /\ \A i \in DOMAIN ExampleLines :
           /\ LeftSide(calc.ret.examples[i]) = Undigited(Segments(ExampleLines[i])[1])
           /\ Len(Segments(ExampleLines[i])) > 2
                => RightSide(calc.ret.examples[i])
                     = Rejoined(Tail(Segments(ExampleLines[i])), <<"-">>)

\* the line "1. a - b - ya" has been parsed for a German query
C31_Witness ==
    /\ ParseDone /\ ~Cyrillic(calc.original)
    /\ ExampleLines = <<Enumerated(S_a, <<"b", " ", "-", " ", "ya">>)>>
    /\ calc.ret.examples = <<Example(<<".", " ", "a">>, <<"b", "-", "ya">>)>>

(***************************************************************************)
(* Properties of the session table as a whole.                             *)
(***************************************************************************)
\* C32: every session of the table has words_practiced = correct_answers +
\* wrong_answers, whatever was started, answered and stopped and however the
\* handlers ended.
C32_CountersAddUp ==
    \A c \in Chats :
      sessions[c].present
        => sessions[c].words_practiced
             = sessions[c].correct_answers + sessions[c].wrong_answers

\* a session with answers of both kinds
C32_Witness ==
    \E c \in Chats :
      /\ sessions[c].present
      /\ sessions[c].correct_answers >= 2
      /\ sessions[c].wrong_answers >= 1
      /\ sessions[c].words_practiced = 3

\* r is the item x: the record with the same original and translation
ItemOf(x, r) == r.original = x.original /\ r.translation = x.translation

\* C33: when a word-translation answer is graded while the current item is in
\* the store, the record whose counters change is the current item and no other
\* record.
C33_StatsOnCurrentItem ==
    [][(/\ out'.op = "answer" /\ Active(sessions, out'.chat)
        /\ sessions[out'.chat].practice_type = WordTranslation
        /\ Readable(file)
        /\ \E i \in DOMAIN Collection(file) :
             ItemOf(sessions[out'.chat].current_word, Collection(file)[i]))
         => /\ Len(Collection(file')) = Len(Collection(file))
            /\ \A j \in DOMAIN Collection(file) :
                 Collection(file')[j] # Collection(file)[j]
                   => ItemOf(sessions[out'.chat].current_word, Collection(file)[j])]_vars

\* the handler of task t has returned
Returned(t) == task[t].pc = "done"

\* C34: in every interleaving of one /stop and one answer of a chat, once both
\* handlers have returned and the stop has removed the session, the chat has no
\* session: the answer has not put it back.
C34_StoppedStaysStopped ==
    (/\ Returned(1) /\ task[1].op = "answer"
     /\ Returned(2) /\ task[2].op = "stop" /\ task[2].ok
     /\ task[1].chat = task[2].chat)
      => ~sessions[task[2].chat].present

\* the answer was accepted while the chat was practising and found the session
\* gone when it got the lock
C34_Witness ==
    /\ Returned(1) /\ task[1].op = "answer" /\ task[1].local = NoSession
    /\ Returned(2) /\ task[2].op = "stop" /\ task[2].ok
    /\ task[1].chat = task[2].chat
    /\ ~sessions[task[2].chat].present

\* C35 as stated: start_practice_session for a chat that has a session leaves
\* the chat with one session whose three counters are 0, and no summary of the
\* previous counters is sent.
C35_StartReplaces ==
    [][(out'.op = "start" /\ Active(sessions, out'.chat))
         => /\ Active(sessions', out'.chat)
            /\ ZeroCounters(sessions'[out'.chat])
            /\ ~out'.summary]_vars

\* C35 amended: start_practice_session for a chat that has a session sends no
\* summary of the previous counters.  When the store is readable and not empty
\* and there are practice sentences, the chat's session is replaced by a new one
\* whose three counters are 0; otherwise (store empty or not readable, no
\* practice sentences) the previous session stays as it was, counters included.
C35_StartReplacesOrKeeps ==
    [][(out'.op = "start" /\ Active(sessions, out'.chat))
         => /\ ~out'.summary
            /\ IF Readable(file) /\ Collection(file) # <<>> /\ sentences # <<>>
               THEN /\ out'.feedback = "started"
                    /\ Active(sessions', out'.chat)
                    /\ ZeroCounters(sessions'[out'.chat])
                    /\ \A c \in Chats \ {out'.chat} : sessions'[c] = sessions[c]
               ELSE sessions' = sessions]_vars

\* a session has been started after an answer was recorded in the store
C35_Witness ==
    /\ out.op = "start"
    /\ out.feedback = "started"
    /\ Active(sessions, out.chat)
    /\ ZeroCounters(sessions[out.chat])
    /\ file.state = "ok"
    /\ \E i \in DOMAIN file.recs : Answers(file.recs[i]) > 0

(***************************************************************************)
(* Properties of the locking order.                                        *)
(***************************************************************************)
\* handler h is at the statement l.lock().await
WaitsFor(h, l) == locks.pc[h] > 0 /\ locks.prog[h][locks.pc[h]] = Lock(l)

\* handler h holds the lock l
Holds(h, l) == locks.holder[l] = h

\* two handlers each hold the lock the other is waiting for
Crossed ==
    \E h1 \in Handlers, h2 \in Handlers, a \in Locks, b \in Locks :
      /\ h1 # h2 /\ a # b
      /\ Holds(h1, a) /\ WaitsFor(h1, b)
      /\ Holds(h2, b) /\ WaitsFor(h2, a)

\* C36: no two handlers ever hold the lock the other waits for, and under fair
\* scheduling and terminating I/O every handler that has reached a lock
\* statement eventually holds that lock.
C36_EveryWaiterAcquires ==
    /\ []~Crossed
    /\ \A h \in Handlers, l \in Locks : WaitsFor(h, l) ~> Holds(h, l)

\* a handler holds the talk table and use_chatgpt at once while another one
\* waits in the queue of use_chatgpt
C36_Witness ==
    \E h1 \in Handlers, h2 \in Handlers :
      /\ h1 # h2
      /\ Holds(h1, "talk") /\ Holds(h1, "chatgpt")
      /\ WaitsFor(h2, "chatgpt")
      /\ locks.queue["chatgpt"] = <<h2>>

(***************************************************************************)
(* Properties of the tutor request.                                        *)
(***************************************************************************)
\* make_claude_request has returned
RequestDone == calc.fn = "request" /\ calc.pc = "done"

\* x doubled n times
RECURSIVE Doubled(_, _)
Doubled(x, n) == IF n = 0 THEN x ELSE Doubled(2 * x, n - 1)

\* the replies before the latest one were all server errors
OnlyServerErrorsBefore ==
    \A i \in 1..(Len(calc.replies) - 1) : calc.replies[i] = "server_error"

\* the requests and the sleeps so far are within the limits: at most 6
\* requests, a sleep before each but the first, the i-th sleep computed from the
\* base 1000 * 2^(i-1) and neither shorter than that base nor longer than 32000
WithinLimits ==
    /\ Len(calc.replies) <= 6
    /\ Len(calc.sleeps) <= 5
    /\ calc.pc = "done" => Len(calc.sleeps) = Len(calc.replies) - 1 \/ calc.replies = <<>>
    /\ \A i \in DOMAIN calc.sleeps :
         /\ calc.sleeps[i].backoff_ms = Doubled(1000, i - 1)
         /\ calc.sleeps[i].duration >= calc.sleeps[i].backoff_ms
         /\ calc.sleeps[i].duration <= 32000

\* the result fits the latest reply: the response on a success status, an error
\* at once on a status that is neither success nor a server error, and an error
\* on a server error only after 5 retries
ResultFits ==
    (RequestDone /\ calc.replies # <<>>)
      => LET reply == calc.replies[Len(calc.replies)]
         IN /\ reply = "success" => calc.ret = "Ok(response)"
            /\ reply = "other_status" => calc.ret = "Err(status)"
            /\ reply = "server_error"
                 => /\ calc.ret = "Err(max retries)"
                    /\ Len(calc.replies) = 6
                    /\ Len(calc.sleeps) = 5

Punctuation == {"!", ",", ".", "-", "/", "?"}

\* s without its punctuation, in lower case, without the blanks around it
Unpunctuated(s) == trim(to_lowercase(SelectSeq(s, LAMBDA c : c \notin Punctuation)))

\* s neither starts nor ends with a blank
Trimmed(s) == s = <<>> \/ (s[1] # " " /\ s[Len(s)] # " ")

\* C38: for the answer that is graded, normalize(normalize(answer)) =
\* normalize(answer) and normalize(answer) has no blank at either end, so an
\* answer that is an accepted variant of the reverse direction once its
\* punctuation is taken away is graded Correct.
C38_NormalizeIdempotent ==
    Checked =>
      /\ normalize(normalize(calc.answer)) = normalize(calc.answer)
      /\ Trimmed(normalize(calc.answer))
      /\ (Reverse /\ Unpunctuated(calc.answer) \in AcceptedReverse(calc.translation))
           => calc.ret.result = Correct

====
